---- MODULE Spec2Model ----
(***************************************************************************)
(* The job auto-applier: main() of index.ts (search, merge into the job    *)
(* catalogue, one application attempt per queued job, outcome write-back)  *)
(* and applyToSeekJob of the Seek adapter (apply trigger, bounded step     *)
(* loop, continue-before-submit, post-submit wait), with the question pass *)
(* of the step loop: findAnswer over the saved answers, the rule table and *)
(* the Yes/No default, and persistAnswer with its answers file; and        *)
(* applyToJob of the Indeed adapter.                                       *)
(*                                                                         *)
(* Texts are sequences of characters; a character keeps its case, so       *)
(* toLowerCase is a real conversion and String.includes is a search for a  *)
(* contiguous run of characters.                                           *)
(***************************************************************************)
EXTENDS Integers, Sequences, FiniteSets, TLC

\* ------------------------------------------------------------------ bounds
MaxControls == 3        \* clickable elements on one form screen
MaxCards == 2           \* job cards scraped in one search
MaxRuns == 2            \* launches of the program over the same catalogue file
MaxApplications == 2    \* config.application.maxApplications
MaxSteps == 8           \* the step ceiling of applyToSeekJob
MaxOptions == 3         \* options of one select element
MaxQuestions == 2       \* questions answered between two restarts
MaxLearned == 3         \* questions answered by one process from an empty store

\* ------------------------------------------------------------------- texts
\* A text is the sequence of its characters.
\* a text as markup often holds it, with white space around it
Padded(t) == <<" ", "\n">> \o t \o <<"\n", " ">>

\* String.prototype.toLowerCase lowers by the case mapping of Unicode. The
\* tables are those of Unicode 17: U+0295 is not a cased letter, U+A7CE,
\* U+A7D2 and U+A7D4 have lower-case letters, U+1ACF to U+1AEB and U+A7F1
\* are skipped by casing. The
\* characters of a text here are those a string of this module can hold.
\* LowerPairs spells each of them that has a lower-case letter, followed by
\* that letter.
LowerPairs ==
  "AaBbCcDdEeFfGgHhIiJjKkLlMmNnOoPpQqRrSsTtUuVvWwXxYyZzÀàÁá"
  \o "ÂâÃãÄäÅåÆæÇçÈèÉéÊêËëÌìÍíÎîÏïÐðÑñÒòÓóÔôÕõÖöØøÙùÚúÛûÜüÝýÞþ"
  \o "ƂƃƄƅƇƈƋƌƎǝƑƒƘƙƠơƢƣƤƥƦʀƧƨƩʃƬƭƮʈƯưƱʊƲʋƳƴƵƶƷʒƸƹƼƽǄǆǅǆǇǉǈǉǊǌ"
  \o "ǋǌǍǎǏǐǑǒǓǔǕǖǗǘǙǚǛǜǞǟǠǡǢǣǤǥǦǧǨǩǪǫǬǭǮǯǱǳǲǳǴǵǶƕǷƿǸǹǺǻǼǽǾǿΆά"
  \o "ΈέΉήΊίΌόΎύΏώΑαΒβΓγΔδΕεΖζΗηΘθΙιΚκΛλΜμΝνΞξΟοΠπΡρΣσΤτΥυΦφΧχ"
  \o "ΨψΩωΪϊΫϋϏϗϘϙϚϛϜϝϞϟϠϡϢϣϤϥϦϧϨϩϪϫϬϭϮϯϴθϷϸϹϲϺϻҀҁҊҋҌҍҎҏҐґҒғҔҕ"
  \o "ҖҗҘҙҚқҜҝҞҟҠҡҢңҤҥҦҧҨҩҪҫҬҭҮүҰұҲҳҴҵҶҷҸҹҺһҼҽҾҿӀӏӁӂӃӄӅӆӇӈӉӊӋӌ"
  \o "ӍӎӐӑӒӓӔӕӖӗӘәӚӛӜӝӞӟӠӡӢӣӤӥӦӧӨөӪӫӬӭӮӯӰӱӲӳӴӵӶӷӸӹӺӻӼӽӾӿᎰꮀᎱꮁᎲꮂ"
  \o "ᎳꮃᎴꮄᎵꮅᎶꮆᎷꮇᎸꮈᎹꮉᎺꮊᎻꮋᎼꮌᎽꮍᎾꮎᎿꮏᏀꮐᏁꮑᏂꮒᏃꮓᏄꮔᏅꮕᏆꮖᏇꮗᏈꮘᏉꮙᏊꮚᏋꮛᏌꮜᏍꮝᏎꮞ"
  \o "ᏏꮟᏐꮠᏑꮡᏒꮢᏓꮣᏔꮤᏕꮥᏖꮦᏗꮧᏘꮨᏙꮩᏚꮪᏛꮫᏜꮬᏝꮭᏞꮮᏟꮯᏠꮰᏡꮱᏢꮲᏣꮳᏤꮴᏥꮵᏦꮶᏧꮷᏨꮸᏩꮹᏪꮺ"
  \o "ᏫꮻᏬꮼᏭꮽᏮꮾᏯꮿᏰᏸᏱᏹᏲᏺᏳᏻᏴᏼᏵᏽᲐაᲑბᲒგᲓდᲔეᲕვᲖზᲗთᲘიᲙკᲚლᲛმᲜნᲝოᲞპᲟჟᲠრ"
  \o "ᲡსᲢტᲣუᲤფᲥქᲦღᲧყᲨშᲩჩᲪცᲫძᲬწᲭჭᲮხᲯჯᲰჰᲱჱᲲჲᲳჳᲴჴᲵჵᲶჶᲷჷᲸჸᲹჹᲺჺᲽჽᲾჾ"
  \o "ᲿჿẀẁẂẃẄẅẆẇẈẉẊẋẌẍẎẏẐẑẒẓẔẕẞßẠạẢảẤấẦầẨẩẪẫẬậẮắẰằẲẳẴẵẶặẸẹẺẻẼẽ"
  \o "ẾếỀềỂểỄễỆệỈỉỊịỌọỎỏỐốỒồỔổỖỗỘộỚớỜờỞởỠỡỢợỤụỦủỨứỪừỬửỮữỰựỲỳỴỵ"
  \o "ỶỷỸỹỺỻỼỽỾỿᾈᾀᾉᾁᾊᾂᾋᾃᾌᾄᾍᾅᾎᾆᾏᾇᾘᾐᾙᾑᾚᾒᾛᾓᾜᾔᾝᾕᾞᾖᾟᾗᾨᾠᾩᾡᾪᾢᾫᾣᾬᾤᾭᾥᾮᾦ"
  \o "ᾯᾧᾸᾰᾹᾱᾼᾳῌῃῘῐῙῑῨῠῩῡῬῥῼῳↃↄⒶⓐⒷⓑⒸⓒⒹⓓⒺⓔⒻⓕⒼⓖⒽⓗⒾⓘⒿⓙⓀⓚⓁⓛⓂⓜⓃⓝⓄⓞⓅⓟ"
  \o "ⓆⓠⓇⓡⓈⓢⓉⓣⓊⓤⓋⓥⓌⓦⓍⓧⓎⓨⓏⓩⲀⲁⲂⲃⲄⲅⲆⲇⲈⲉⲊⲋⲌⲍⲎⲏⲐⲑⲒⲓⲔⲕⲖⲗⲘⲙⲚⲛⲜⲝⲞⲟⲠⲡⲢⲣ"
  \o "ⲤⲥⲦⲧⲨⲩⲪⲫⲬⲭⲮⲯⲰⲱⲲⲳⲴⲵⲶⲷⲸⲹⲺⲻⲼⲽⲾⲿⳀⳁⳂⳃⳄⳅⳆⳇⳈⳉⳊⳋⳌⳍⳎⳏⳐⳑⳒⳓⳔⳕⳖⳗⳘⳙⳚⳛ"
  \o "ⳜⳝⳞⳟⳠⳡⳢⳣⳫⳬⳭⳮⳲⳳꚀꚁꚂꚃꚄꚅꚆꚇꚈꚉꚊꚋꚌꚍꚎꚏꚐꚑꚒꚓꚔꚕꚖꚗꚘꚙꚚꚛꞀꞁꞂꞃꞄꞅꞆꞇꞋꞌꞐꞑꞒꞓ"
  \o "ꞖꞗꞘꞙꞚꞛꞜꞝꞞꞟꞠꞡꞢꞣꞤꞥꞦꞧꞨꞩꞰʞꞱʇꞲʝꞴꞵꞶꞷꞸꞹꞺꞻꞼꞽꞾꞿꟀꟁꟂꟃꟄꞔꟅʂꟆᶎꟇꟈꟉꟊꟐꟑꟖꟗ"
  \o "ꟘꟙꟵꟶ"
    \o "ᲉᲊꟌꟍꟚꟛꟜƛ"
    \o "꟎꟏꟒ꟓ꟔ꟕ"

\* the characters of a string
Chars(s) == {SubSeq(s, k, k) : k \in 1..Len(s)}

\* the lower-case letter of each letter that has one
LowerOf ==
  [c \in {SubSeq(LowerPairs, 2 * k - 1, 2 * k - 1) : k \in 1..(Len(LowerPairs) \div 2)} |->
     LET k == CHOOSE k \in 1..(Len(LowerPairs) \div 2) :
                SubSeq(LowerPairs, 2 * k - 1, 2 * k - 1) = c
     IN SubSeq(LowerPairs, 2 * k, 2 * k)]

\* the letters whose lower-case letter no string of this module can hold: no
\* text here has one of them
LowerUnwritten ==
  Chars("ƁƆƉƊƏƐƓƔƖƗƜƝƟϽϾϿႠႡႢႣႤႥႦႧႨႩႪႫႬႭႮႯႰႱႲႳႴႵႶႷႸႹႺႻႼႽႾႿჀჁჂჃჄჅჇჍ"
        \o "ᎠᎡᎢᎣᎤᎥᎦᎧᎨᎩᎪᎫᎬᎭᎮᎯᾺΆῈΈῊΉῚΊῪΎῸΌῺΏꞍꞪꞫꞬꞭꞮꞳ"
        \o "Ɤ")

\* the cased letters, less those that casing skips
CasedLetters ==
  Chars("ABCDEFGHIJKLMNOPQRSTUVWXYZabcdefghijklmnopqrstuvwxyzªµºÀ"
        \o "ÁÂÃÄÅÆÇÈÉÊËÌÍÎÏÐÑÒÓÔÕÖØÙÚÛÜÝÞßàáâãäåæçèéêëìíîïðñòóôõöøùú"
        \o "ûüýþÿƀƁƂƃƄƅƆƇƈƉƊƋƌƍƎƏƐƑƒƓƔƕƖƗƘƙƚƛƜƝƞƟƠơƢƣƤƥƦƧƨƩƪƫƬƭƮƯưƱƲ"
        \o "ƳƴƵƶƷƸƹƺƼƽƾƿǄǅǆǇǈǉǊǋǌǍǎǏǐǑǒǓǔǕǖǗǘǙǚǛǜǝǞǟǠǡǢǣǤǥǦǧǨǩǪǫǬǭǮǯ"
        \o "ǰǱǲǳǴǵǶǷǸǹǺǻǼǽǾǿʀʁʂʃʄʅʆʇʈʉʊʋʌʍʎʏʐʑʒʓʖʗʘʙʚʛʜʝʞʟʠʡʢʣʤʥʦʧʨ"
        \o "ʩʪʫʬʭʮʯΆΈΉΊΌΎΏΐΑΒΓΔΕΖΗΘΙΚΛΜΝΞΟΠΡΣΤΥΦΧΨΩΪΫάέήίΰαβγδεζηθικ"
        \o "λμνξοπρςστυφχψωϊϋόύώϏϐϑϒϓϔϕϖϗϘϙϚϛϜϝϞϟϠϡϢϣϤϥϦϧϨϩϪϫϬϭϮϯϰϱϲ"
        \o "ϳϴϵϷϸϹϺϻϼϽϾϿҀҁҊҋҌҍҎҏҐґҒғҔҕҖҗҘҙҚқҜҝҞҟҠҡҢңҤҥҦҧҨҩҪҫҬҭҮүҰұҲҳ"
        \o "ҴҵҶҷҸҹҺһҼҽҾҿӀӁӂӃӄӅӆӇӈӉӊӋӌӍӎӏӐӑӒӓӔӕӖӗӘәӚӛӜӝӞӟӠӡӢӣӤӥӦӧӨөӪӫ"
        \o "ӬӭӮӯӰӱӲӳӴӵӶӷӸӹӺӻӼӽӾӿրցւփքօֆևֈႠႡႢႣႤႥႦႧႨႩႪႫႬႭႮႯႰႱႲႳႴႵႶႷႸႹႺ"
        \o "ႻႼႽႾႿჀჁჂჃჄჅჇჍაბგდევზთიკლმნოპჟრსტუფქღყშჩცძწჭხჯჰჱჲჳჴჵჶჷჸჹჺ"
        \o "ჽჾჿᎠᎡᎢᎣᎤᎥᎦᎧᎨᎩᎪᎫᎬᎭᎮᎯᎰᎱᎲᎳᎴᎵᎶᎷᎸᎹᎺᎻᎼᎽᎾᎿᏀᏁᏂᏃᏄᏅᏆᏇᏈᏉᏊᏋᏌᏍᏎᏏᏐᏑᏒᏓᏔ"
        \o "ᏕᏖᏗᏘᏙᏚᏛᏜᏝᏞᏟᏠᏡᏢᏣᏤᏥᏦᏧᏨᏩᏪᏫᏬᏭᏮᏯᏰᏱᏲᏳᏴᏵᏸᏹᏺᏻᏼᏽᲀᲁᲂᲃᲄᲅᲆᲇᲈᲐᲑᲒᲓᲔᲕᲖᲗ"
        \o "ᲘᲙᲚᲛᲜᲝᲞᲟᲠᲡᲢᲣᲤᲥᲦᲧᲨᲩᲪᲫᲬᲭᲮᲯᲰᲱᲲᲳᲴᲵᲶᲷᲸᲹᲺᲽᲾᲿᶀᶁᶂᶃᶄᶅᶆᶇᶈᶉᶊᶋᶌᶍᶎᶏᶐᶑ"
        \o "ᶒᶓᶔᶕᶖᶗᶘᶙᶚẀẁẂẃẄẅẆẇẈẉẊẋẌẍẎẏẐẑẒẓẔẕẖẗẘẙẚẛẜẝẞẟẠạẢảẤấẦầẨẩẪẫẬậẮ"
        \o "ắẰằẲẳẴẵẶặẸẹẺẻẼẽẾếỀềỂểỄễỆệỈỉỊịỌọỎỏỐốỒồỔổỖỗỘộỚớỜờỞởỠỡỢợỤụỦ"
        \o "ủỨứỪừỬửỮữỰựỲỳỴỵỶỷỸỹỺỻỼỽỾỿᾀᾁᾂᾃᾄᾅᾆᾇᾈᾉᾊᾋᾌᾍᾎᾏᾐᾑᾒᾓᾔᾕᾖᾗᾘᾙᾚᾛᾜᾝᾞ"
        \o "ᾟᾠᾡᾢᾣᾤᾥᾦᾧᾨᾩᾪᾫᾬᾭᾮᾯᾰᾱᾲᾳᾴᾶᾷᾸᾹᾺΆᾼιῂῃῄῆῇῈΈῊΉῌῐῑῒΐῖῗῘῙῚΊῠῡῢΰῤῥ"
        \o "ῦῧῨῩῪΎῬῲῳῴῶῷῸΌῺΏῼↃↄⒶⒷⒸⒹⒺⒻⒼⒽⒾⒿⓀⓁⓂⓃⓄⓅⓆⓇⓈⓉⓊⓋⓌⓍⓎⓏⓐⓑⓒⓓⓔⓕⓖⓗⓘⓙⓚ"
        \o "ⓛⓜⓝⓞⓟⓠⓡⓢⓣⓤⓥⓦⓧⓨⓩⲀⲁⲂⲃⲄⲅⲆⲇⲈⲉⲊⲋⲌⲍⲎⲏⲐⲑⲒⲓⲔⲕⲖⲗⲘⲙⲚⲛⲜⲝⲞⲟⲠⲡⲢⲣⲤⲥⲦⲧⲨ"
        \o "ⲩⲪⲫⲬⲭⲮⲯⲰⲱⲲⲳⲴⲵⲶⲷⲸⲹⲺⲻⲼⲽⲾⲿⳀⳁⳂⳃⳄⳅⳆⳇⳈⳉⳊⳋⳌⳍⳎⳏⳐⳑⳒⳓⳔⳕⳖⳗⳘⳙⳚⳛⳜⳝⳞⳟⳠ"
        \o "ⳡⳢⳣⳤⳫⳬⳭⳮⳲⳳꚀꚁꚂꚃꚄꚅꚆꚇꚈꚉꚊꚋꚌꚍꚎꚏꚐꚑꚒꚓꚔꚕꚖꚗꚘꚙꚚꚛꞀꞁꞂꞃꞄꞅꞆꞇꞋꞌꞍꞎꞐꞑꞒꞓꞔꞕ"
        \o "ꞖꞗꞘꞙꞚꞛꞜꞝꞞꞟꞠꞡꞢꞣꞤꞥꞦꞧꞨꞩꞪꞫꞬꞭꞮꞯꞰꞱꞲꞳꞴꞵꞶꞷꞸꞹꞺꞻꞼꞽꞾꞿꟀꟁꟂꟃꟄꟅꟆꟇꟈꟉꟊꟐꟑꟓ"
        \o "ꟕꟖꟗꟘꟙꟵꟶꟺꮀꮁꮂꮃꮄꮅꮆꮇꮈꮉꮊꮋꮌꮍꮎꮏꮐꮑꮒꮓꮔꮕꮖꮗꮘꮙꮚꮛꮜꮝꮞꮟꮠꮡꮢꮣꮤꮥꮦꮧꮨꮩꮪꮫꮬꮭꮮꮯ"
        \o "ꮰꮱꮲꮳꮴꮵꮶꮷꮸꮹꮺꮻꮼꮽꮾꮿ"
        \o "ᲉᲊꟋꟌꟍꟚꟛꟜ"
        \o "꟎꟏꟒꟔")

\* the characters casing skips: marks, modifiers, format characters and the
\* punctuation inside words
CaseIgnorable ==
  Chars("'.:^¨­¯´·¸ʰʱʲʳʴʵʶʷʸʹʺʻʼʽʾʿˀˁ˂˃˄˅ˆˇˈˉˊˋˌˍˎˏːˑ˒˓˔˕˖˗˘˙˚˛˜˝"
        \o "˞˟ˠˡˢˣˤ˥˦˧˨˩˪˫ˬ˭ˮ˯˰˱˲˳˴˵˶˷˸˹˺˻˼˽˾˿΄΅·҃҄҅҆҇҈҉֑֖֛֚֒֓֔֕֗֘֙֜"
        \o "ְֱֲֳִֵֶַָׇֹֺֻּֽֿׁׂ֢֣֤֥֦֧֪ׅ֭֮֝֞֟֠֡֨֩֫֬֯ׄ״ۖۗۘۙۚۛۜ۝ۣ۟۠ۡۢۤۥۦ"
        \o "۪ۭۧۨ۫۬ަާިީުޫެޭޮޯް߲߫߬߭߮߯߰߱߳ߴߵߺ߽࢈࢐࢑࢙࢚࢛࢘࢜࢝࢞࢟ࣉ࣏࣐࣑࣒࣓࣊࣋࣌࣍࣎ࣔࣕࣖࣗ"
        \o "ࣘࣙࣚࣛࣜࣝࣞࣟ࣠࣡࣢ࣰࣱࣲࣣࣦࣩ࣭࣮࣯ࣶࣹࣺࣤࣥࣧࣨ࣪࣫࣬ࣳࣴࣵࣷࣸࣻࣼࣽࣾࣿঁ়ুূৃৄ্ৢৣ৾ઁં઼ુૂૃ"
        \o "ૄૅેૈ્ૢૣૺૻૼ૽૾૿ஂீ்ಁ಼ಿೆೌ್ೢೣඁ්ිීුූັິີຶື຺ຸູົຼໆ່້໊໋໌ໍ྄ཱྀྀྂྃ྆྇ྍྎ"
        \o "ྏྐྑྒྒྷྔྕྖྗྙྚྛྜྜྷྞྟྠྡྡྷྣྤྥྦྦྷྨྩྪྫྫྷྭྮྯྰྱྲླྴྵྶྷྸྐྵྺྻྼ࿆ႂႅႆႍႝჼ឴឵ិី"
        \o "ឹឺុូួំ៉៊់៌៍៎៏័៑្៓ៗ៝ᢅᢆᢩᪧ᪵᪶᪷᪸᪹᪺᪽᪰᪱᪲᪳᪴᪻᪼᪾ᪿᫀ᫃᫄᫊᫁᫂᫅᫆᫇᫈᫉᫋ᫌᫍᫎᮀᮁ"
        \o "ᮢᮣᮤᮥᮨᮩ᮫ᮬᮭ᯦ᯨᯩᯭᯯᯰᯱ᳔᳢᳣᳤᳥᳦᳧᳨᳕᳖᳗᳘᳙᳜᳝᳞᳟᳭᳐᳑᳒᳚᳛᳠᳴᳸᳹ᶛᶜᶝᶞᶟᶠᶡᶢᶣᶤᶥᶦᶧ"
        \o "ᶨᶩᶪᶫᶬᶭᶮᶯᶰᶱᶲᶳᶴᶵᶶᶷᶸᶹᶺᶻᶼᶽᶾᶿ᷐᷎᷂᷊᷏᷀᷁᷃᷄᷅᷆᷇᷈᷉᷋᷌᷑᷒ᷓᷔᷕᷖᷗᷘᷙᷚᷛᷜᷝᷞᷟ᷍"
        \o "᷺᷹᷽᷿᷷᷸ᷠᷡᷢᷣᷤᷥᷦᷧᷨᷩᷪᷫᷬᷭᷮᷯᷰᷱᷲᷳᷴ᷵᷻᷾᷶᷼᾽᾿῀῁῍῎῏῝῞῟῭΅`´῾ₐₑₒₓₔₕₖₗₘ"
        \o "ₙₚₛₜ⃒⃓⃘⃙⃚⃐⃑⃔⃕⃖⃗⃛⃜⃝⃞⃟⃠⃡⃢⃣⃤⃥⃦⃪⃫⃨⃬⃭⃮⃯⃧⃩⃰⳯⳰⳱ⷠⷡⷢⷣⷤⷥⷦⷧⷨⷩⷪⷫⷬⷭⷮⷯ"
        \o "゙゚ⷰⷱⷲⷳⷴⷵⷶⷷⷸⷹⷺⷻⷼⷽⷾⷿ゛゜ゝゞーヽヾꓸꓹꓺꓻꓼꓽꚜꚝꚞꚟ꛰꛱ꞈ꞉꞊ꟲꟳꟴꟸꟹ꣄ꣅ꣠꣡꣢꣣꣤꣥꣦꣧꣨"
        \o "꣩꣪꣫꣬꣭꣮꣯꣰꣱ꣿꦀꦁꦂ꦳ꦶꦷꦸꦹꦼꦽꧏꧥꧦꪴꪰꪲꪳꪷꪸꪾ꪿꫁ꫝꫬꫭꫳꫴ꫶ꯥꯨ꯭﮲﮳﮴﮵﮶﮷﮸﮹﮺﮻﮼﮽﮾﮿﯀"
        \o "﯁﯂﻿ﾞﾟ￣￹￺￻"
        \o "ࢗ໎"
        \o "᫏᫐᫑᫒᫓᫔᫕᫖᫗᫘᫙᫚᫛᫜᫝᫠᫡᫢᫣᫤᫥᫦᫧᫨᫩᫪᫫꟱")

\* the case mapping of one character: its lower-case letter, or itself
LowerChar(c) ==
  CASE c \in DOMAIN LowerOf -> LowerOf[c]
    [] c \notin DOMAIN LowerOf /\ c \notin LowerUnwritten -> c

\* One rule of the mapping reads the context, FinalSigma: a capital sigma
\* that ends a word, a cased letter before it and none after it, with the
\* characters casing skips passed over on either side.
toLowerCase(t) ==
  LET FinalSigma(k) ==
        /\ \E i \in 1..(k - 1) :
             /\ t[i] \in CasedLetters
             /\ \A j \in (i + 1)..(k - 1) : t[j] \in CaseIgnorable
        /\ ~\E i \in (k + 1)..Len(t) :
              /\ t[i] \in CasedLetters
              /\ \A j \in (k + 1)..(i - 1) : t[j] \in CaseIgnorable
  IN [k \in DOMAIN t |->
        IF t[k] = "Σ" /\ FinalSigma(k) THEN "ς" ELSE LowerChar(t[k])]

\* the white space and the line terminators of ECMAScript that a string of
\* this module can hold: space, tab, line feed, carriage return, form feed,
\* vertical tab, no-break space, ogham space mark, byte order mark. U+2000 to
\* U+200A, U+2028, U+2029, U+202F, U+205F and U+3000 are white space to the
\* program too, and no text here has one of them.
WhiteSpace == {" ", "\t", "\n", "\r", "\f", "", " ", " ", "﻿"}

\* String.prototype.trim: leading and trailing white space goes, inner stays.
RECURSIVE trimStart(_)
trimStart(t) == IF t # <<>> /\ Head(t) \in WhiteSpace THEN trimStart(Tail(t)) ELSE t

RECURSIVE trimEnd(_)
trimEnd(t) ==
  IF t # <<>> /\ t[Len(t)] \in WhiteSpace
    THEN trimEnd(SubSeq(t, 1, Len(t) - 1)) ELSE t

trim(t) == trimEnd(trimStart(t))

\* String.prototype.includes
includes(t, s) ==
  \E k \in 0..(Len(t) - Len(s)) : \A n \in 1..Len(s) : t[k + n] = s[n]

\* a || b on strings: the empty string is falsy
OrElse(a, b) == IF a # <<>> THEN a ELSE b

\* Array.prototype.find as an index: the first k with P, 0 when there is none
FirstIndex(s, P(_)) ==
  IF \E k \in DOMAIN s : P(s[k])
    THEN CHOOSE k \in DOMAIN s : P(s[k]) /\ \A m \in 1..(k - 1) : ~P(s[m])
    ELSE 0

\* ------------------------------------------------------------- form screen
ContinueTexts == << <<"c", "o", "n", "t", "i", "n", "u", "e">>, <<"n", "e", "x", "t">>, <<"p",
      "r", "o", "c", "e", "e", "d">> >>

DonePhrases ==
  { <<"a", "p", "p", "l", "i", "c", "a", "t", "i", "o", "n", " ", "s", "u", "b", "m", "i", "t",
        "t", "e", "d">>, <<"y", "o", "u", "'", "v", "e", " ", "a", "p", "p", "l", "i", "e", "d">>,
    <<"s", "u", "c", "c", "e", "s", "s", "f", "u", "l", "l", "y", " ", "a", "p", "p", "l", "i",
          "e", "d">>, <<"t", "h", "a", "n", "k", " ", "y", "o", "u", " ", "f", "o", "r", " ",
          "a", "p", "p", "l", "y", "i", "n", "g">> }

ConfirmPhrases ==
  { <<"a", "p", "p", "l", "i", "c", "a", "t", "i", "o", "n", " ", "h", "a", "s", " ", "b", "e",
        "e", "n", " ", "s", "e", "n", "t">>, <<"k", "e", "e", "p", " ", "i", "t", " ", "u", "p">>,
    <<"a", "p", "p", "l", "i", "c", "a", "t", "i", "o", "n", " ", "s", "u", "b", "m", "i", "t",
          "t", "e", "d">>, <<"y", "o", "u", "'", "v", "e", " ", "a", "p", "p", "l", "i", "e", "d">>,
    <<"t", "h", "a", "n", "k", " ", "y", "o", "u", " ", "f", "o", "r", " ", "a", "p", "p", "l",
          "y", "i", "n", "g">>, <<"y", "o", "u", " ", "m", "i", "g", "h", "t", " ", "a", "l",
          "s", "o", " ", "l", "i", "k", "e">> }

\* a clickable element: tag "button", "role-button" ([role="button"] on another
\* tag) or "input-submit"; textContent, value and the disabled attribute
Control(tag, text, value, disabled) ==
  [tag |-> tag, textContent |-> text, value |-> value, disabled |-> disabled]

ContinueBtn == Control("button", <<"C", "o", "n", "t", "i", "n", "u", "e">>, <<>>, FALSE)
NextDisabledBtn == Control("button", <<"N", "e", "x", "t">>, <<>>, TRUE)
SubmitApplicationBtn == Control("button", <<"S", "u", "b", "m", "i", "t", " ", "A", "p", "p",
      "l", "i", "c", "a", "t", "i", "o", "n">>, <<>>, FALSE)
SubmitDisabledBtn == Control("button", Padded(<<"S", "u", "b", "m", "i", "t">>), <<>>, TRUE)
ProceedInput == Control("input-submit", <<>>, <<"P", "r", "o", "c", "e", "e", "d">>, FALSE)

Controls ==
  {ContinueBtn, NextDisabledBtn, SubmitApplicationBtn, SubmitDisabledBtn, ProceedInput}

Bodies ==
  { <<>>, <<"A", "p", "p", "l", "i", "c", "a", "t", "i", "o", "n", " ", "S", "u", "b", "m", "i",
        "t", "t", "e", "d">>, <<"K", "e", "e", "p", " ", "i", "t", " ", "u", "p">>,
    <<"S", "u", "c", "c", "e", "s", "s", "f", "u", "l", "l", "y", " ", "a", "p", "p", "l", "i",
          "e", "d">> }

SeqsUpTo(S, n) == UNION {[1..m -> S] : m \in 0..n}

\* a <label> with its input, as the page holds it: the label's textContent,
\* the kind of input, the input's id ("" for none) and, for a <select>, the
\* texts of its options that have a value
Field(text, type, id, options) ==
  [text |-> text, type |-> type, id |-> id, options |-> options]

\* a select asking a question no rule knows, with the options Yes and No
HappyYesNo ==
  Field(<<"A", "r", "e", " ", "y", "o", "u", " ", "h", "a", "p", "p", "y", " ", "?">>, "select",
        "q1", << <<"Y", "e", "s">>, <<"N", "o">> >>)

\* every screen the flow is checked against: every arrangement of the controls
\* with no question, and with a question the one-button forms, the form with
\* no control and the form whose only control is disabled
FlowScreens ==
  { scr \in [body : Bodies, controls : SeqsUpTo(Controls, MaxControls),
             questions : {<<>>, <<HappyYesNo>>}] :
      scr.questions = <<>>
        \/ scr.controls \in {<<ContinueBtn>>, <<SubmitApplicationBtn>>, <<>>,
                              <<NextDisabledBtn>>} }

\* part_000:226-232
isDone(body) == \E p \in DonePhrases : includes(toLowerCase(body), p)

\* part_000:303-311, the predicate the post-submit wait polls
isConfirmed(body) == \E p \in ConfirmPhrases : includes(toLowerCase(body), p)

\* part_000:450-451, the text test of clickButtonByText
MatchesTexts(el, texts) ==
  LET t == toLowerCase(OrElse(trim(el.textContent), el.value))
  IN \E k \in DOMAIN texts : t = texts[k] \/ includes(t, texts[k])

\* part_000:446-458: the index of the element clicked, 0 when it returns false
clickButtonByText(controls, texts) ==
  LET Hit(el) == MatchesTexts(el, texts)
      btn == FirstIndex(controls, Hit)
  IN IF btn # 0 /\ ~controls[btn].disabled THEN btn ELSE 0

\* part_000:286-289, the text test of the submit search
MatchesSubmit(el) ==
  LET text == toLowerCase(trim(el.textContent))
  IN includes(text, <<"s", "u", "b", "m", "i", "t", " ", "a", "p", "p", "l", "i", "c", "a", "t",
        "i", "o", "n">>) \/ text = <<"s", "u", "b", "m", "i", "t">>

\* part_000:283-295: the index of the <button> the click event is dispatched to,
\* 0 when there is none; the disabled attribute is not looked at
findSubmitBtn(controls) ==
  LET Hit(el) == el.tag = "button" /\ MatchesSubmit(el)
  IN FirstIndex(controls, Hit)

\* part_000:198-203
applySelectors ==
  << "data-automation=job-detail-apply", "button:has-text(Quick apply)",
     "button:has-text(Apply)", "a:has-text(Apply)" >>

\* --------------------------------------------------------------- catalogue
SiteOrigin == "https://www.seek.com.au"

\* an href is its origin ("" for a site-relative href) and its path
Href(origin, path) == [origin |-> origin, path |-> path]

startsWithHttp(href) == href.origin # ""

\* part_000:156
absoluteUrl(href) == IF startsWithHttp(href) THEN href ELSE Href(SiteOrigin, href.path)

\* the cards of a result page, each with its title and the href of its link:
\* one listing under a relative href, under an absolute http href, under an
\* absolute href whose host is in upper case and under a relative href whose
\* path is in another case, the same href under two titles, and a second
\* listing
Cards ==
  { [title |-> "Analyst", href |-> Href("", "/job/1")],
    [title |-> "Senior Analyst", href |-> Href("", "/job/1")],
    [title |-> "Analyst", href |-> Href("http://www.seek.com.au", "/job/1")],
    [title |-> "Analyst", href |-> Href("https://WWW.SEEK.COM.AU", "/job/1")],
    [title |-> "Analyst", href |-> Href("", "/Job/1")],
    [title |-> "Clerk", href |-> Href("", "/job/2")] }

\* part_000:160-164; appliedAt is <<>> while undefined, <<t>> once set. The
\* other scraped fields (company, location, workType, salary, keyword) travel
\* with the record exactly as title does.
NewJob(title, url) ==
  [title |-> title, url |-> url, applied |-> FALSE, appliedAt |-> <<>>]

RECURSIVE searchLoop(_, _, _)
searchLoop(cards, seenUrls, acc) ==
  IF cards = <<>> THEN acc
  ELSE LET j == Head(cards)
           jobUrl == absoluteUrl(j.href)
       IN IF jobUrl \in seenUrls
            THEN searchLoop(Tail(cards), seenUrls, acc)
            ELSE searchLoop(Tail(cards), seenUrls \cup {jobUrl},
                            Append(acc, NewJob(j.title, jobUrl)))

\* part_000:108-176. The scrape takes a card only if it has a link matching
\* a[href*="/job/"] (part_000:135-137): the href attribute holds the text
\* /job/, letter for letter.
searchSeek(cards) ==
  LET HasJobLink(card) ==
        LET text == card.href.origin \o card.href.path
        IN \E k \in 1..(Len(text) - 4) : SubSeq(text, k, k + 4) = "/job/"
  IN searchLoop(SelectSeq(cards, HasJobLink), {}, <<>>)

\* JSON.stringify drops a key whose value is undefined
stringifyJob(j) ==
  IF j.appliedAt = <<>>
    THEN [title |-> j.title, url |-> j.url, applied |-> j.applied]
    ELSE [title |-> j.title, url |-> j.url, applied |-> j.applied,
          appliedAt |-> j.appliedAt[1]]

\* JSON.parse; a key the text lacks reads as undefined
parseJob(r) ==
  [title |-> r.title, url |-> r.url, applied |-> r.applied,
   appliedAt |-> IF "appliedAt" \in DOMAIN r THEN <<r.appliedAt>> ELSE <<>>]

\* a file that is not there, and a file whose text JSON.parse rejects
AbsentFile == [kind |-> "absent", text |-> <<>>]
MalformedFile == [kind |-> "malformed", text |-> <<>>]

\* a file whose text is the JSON value null: JSON.parse accepts it. As a
\* catalogue file, a text that parses to an object, a string, a number or a
\* boolean behaves as this one does.
NullFile == [kind |-> "null", text |-> <<>>]

\* how a call of fs.writeFileSync ends: the text is written ("ok"); the file
\* cannot be opened and the call throws ("refused"); the open has emptied the
\* file and the write throws before the text is complete ("cut")
WriteOutcomes == {"ok", "refused", "cut"}

\* index.ts:20, part_000:52: the file a call of fs.writeFileSync leaves. An
\* empty file and a text that stops part-way are both rejected by JSON.parse.
writeFileSync(file, content, w) ==
  CASE w = "ok" -> content
    [] w = "refused" -> file
    [] OTHER -> [kind |-> "malformed", text |-> <<>>]

\* index.ts:19-21, the content a successful write leaves
saveJobs(jobs) == [kind |-> "json", text |-> [k \in DOMAIN jobs |-> stringifyJob(jobs[k])]]

\* index.ts:8-17: the value returned, whatever JSON.parse made of the text:
\* whether it is an array, and its items. An absent file and a file JSON.parse
\* rejects give [].
loadJobs(file) ==
  CASE file.kind = "json" ->
         [isArray |-> TRUE, items |-> [k \in DOMAIN file.text |-> parseJob(file.text[k])]]
    [] file.kind = "null" -> [isArray |-> FALSE, items |-> <<>>]
    [] OTHER -> [isArray |-> TRUE, items |-> <<>>]

\* a merge in which the fresh record replaces the stored one
mergeFreshWins(existingJobs, fresh) ==
  LET Fresh(u) == CHOOSE j \in {fresh[k] : k \in DOMAIN fresh} : j.url = u
      freshUrls == {fresh[k].url : k \in DOMAIN fresh}
      existingUrls == {existingJobs[k].url : k \in DOMAIN existingJobs}
      IsNew(j) == j.url \notin existingUrls
  IN [k \in DOMAIN existingJobs |->
        IF existingJobs[k].url \in freshUrls THEN Fresh(existingJobs[k].url)
        ELSE existingJobs[k]] \o SelectSeq(fresh, IsNew)

\* index.ts:64-66
mergeJobs(existingJobs, fresh) ==
  LET existingUrls == {existingJobs[k].url : k \in DOMAIN existingJobs}
      IsNew(j) == j.url \notin existingUrls
  IN existingJobs \o SelectSeq(fresh, IsNew)

RECURSIVE unappliedFrom(_, _)
unappliedFrom(jobs, k) ==
  IF k > Len(jobs) THEN <<>>
  ELSE IF ~jobs[k].applied THEN <<k>> \o unappliedFrom(jobs, k + 1)
  ELSE unappliedFrom(jobs, k + 1)

\* a queue of every unapplied job, however many
buildQueueOfAll(jobs) == unappliedFrom(jobs, 1)

\* index.ts:72-74; the queue holds the catalogue's own objects, so it is kept
\* as positions in allJobs
buildQueue(jobs) ==
  LET un == unappliedFrom(jobs, 1)
  IN SubSeq(un, 1, IF Len(un) < MaxApplications THEN Len(un) ELSE MaxApplications)

\* a write-back that marks every record still unapplied
updateEveryUnapplied(jobs, url, success, t) ==
  [k \in DOMAIN jobs |->
     IF ~jobs[k].applied
       THEN [jobs[k] EXCEPT !.applied = success,
                            !.appliedAt = IF success THEN <<t>> ELSE <<>>]
       ELSE jobs[k]]

\* a loop that goes from one application to the next with no pause
delayNever(i, n) == FALSE

\* index.ts:99: a delay follows every application but the last of the queue
delayDue(i, n) == i < n - 1

\* index.ts:88-92
updateOutcome(jobs, url, success, t) ==
  LET HasUrl(j) == j.url = url
      jobInList == FirstIndex(jobs, HasUrl)
  IN IF jobInList # 0
       THEN [jobs EXCEPT ![jobInList].applied = success,
                         ![jobInList].appliedAt = IF success THEN <<t>> ELSE <<>>]
       ELSE jobs

\* ------------------------------------------------------ screening questions
\* part_000:22-38, in the order Object.entries runs through them
SCREENING_ANSWERS ==
  << [key |-> <<"r", "i", "g", "h", "t", " ", "t", "o", " ", "w", "o", "r",
        "k">>, val |-> <<"Y", "e", "s">>],
     [key |-> <<"w", "o", "r", "k", " ", "i", "n", " ", "a", "u", "s", "t", "r", "a", "l", "i",
           "a">>, val |-> <<"Y", "e", "s">>],
     [key |-> <<"a", "u", "s", "t", "r", "a", "l", "i", "a", "n", " ", "c", "i", "t", "i", "z",
           "e", "n">>, val |-> <<"Y", "e", "s">>],
     [key |-> <<"v", "i", "s", "a">>, val |-> <<"Y", "e", "s">>],
     [key |-> <<"s", "a", "l", "a", "r", "y">>, val |-> <<"6", "5", "0", "0", "0">>],
     [key |-> <<"e", "x", "p", "e", "c", "t", "e", "d", " ", "s", "a", "l", "a", "r",
           "y">>, val |-> <<"6", "5", "0", "0", "0">>],
     [key |-> <<"s", "a", "l", "a", "r", "y", " ", "e", "x", "p", "e", "c", "t", "a", "t", "i",
           "o", "n">>, val |-> <<"6", "5", "0", "0", "0">>],
     [key |-> <<"y", "e", "a", "r", "s", " ", "o", "f", " ", "e", "x", "p", "e", "r", "i", "e",
           "n", "c", "e">>, val |-> <<"2">>],
     [key |-> <<"h", "o", "w", " ", "m", "a", "n", "y", " ", "y", "e", "a", "r",
           "s">>, val |-> <<"2">>],
     [key |-> <<"e", "x", "p", "e", "r", "i", "e", "n", "c", "e">>, val |-> <<"2">>],
     [key |-> <<"n", "o", "t", "i", "c", "e", " ", "p", "e", "r", "i", "o",
           "d">>, val |-> <<"2", " ", "w", "e", "e", "k", "s">>],
     [key |-> <<"a", "v", "a", "i", "l", "a", "b", "l", "e">>, val |-> <<"I", "m", "m", "e",
           "d", "i", "a", "t", "e", "l", "y">>],
     [key |-> <<"s", "t", "a", "r", "t", " ", "d", "a", "t", "e">>, val |-> <<"I", "m", "m",
           "e", "d", "i", "a", "t", "e", "l", "y">>],
     [key |-> <<"f", "u", "l", "l", " ", "t", "i", "m", "e">>, val |-> <<"Y", "e", "s">>],
     [key |-> <<"p", "a", "r", "t", " ", "t", "i", "m", "e">>, val |-> <<"Y", "e", "s">>] >>

\* string | null: null is <<>>, the string t is <<t>> (so "" is << <<>> >>)
Null == <<>>
Str(t) == <<t>>

\* `if (!answer)`: null and the empty string are falsy
Truthy(answer) == answer # Null /\ answer[1] # <<>>

\* part_000:422-424: the value of the first saved entry whose key the label holds
fromSaved(saved, q) ==
  LET Hit(e) == includes(q, toLowerCase(e.key))
      k == FirstIndex(saved, Hit)
  IN IF k # 0 THEN Str(saved[k].val) ELSE Null

\* part_000:431-432: `match || options[0]`; a match that is the empty string is
\* falsy, so the first option is taken in its place
reconcile(val, options) ==
  LET Match(o) == \/ includes(toLowerCase(o), toLowerCase(val))
                  \/ includes(toLowerCase(val), toLowerCase(o))
      match == FirstIndex(options, Match)
  IN IF match # 0 /\ options[match] # <<>> THEN options[match] ELSE options[1]

\* part_000:427-436: the first rule whose key the label holds
fromRules(q, options) ==
  LET Hit(e) == includes(q, toLowerCase(e.key))
      k == FirstIndex(SCREENING_ANSWERS, Hit)
  IN IF k = 0 THEN Null
     ELSE IF Len(options) > 0 THEN Str(reconcile(SCREENING_ANSWERS[k].val, options))
     ELSE Str(SCREENING_ANSWERS[k].val)

\* part_000:439
yesNoDefault(options) ==
  IF /\ \E k \in DOMAIN options : options[k] = <<"Y", "e", "s">>
     /\ \E k \in DOMAIN options : options[k] = <<"N", "o">>
    THEN Str(<<"Y", "e", "s">>) ELSE Null

\* the first source, in the order given, that returns
firstAnswer(sources) ==
  LET Returns(a) == a # Null
      k == FirstIndex(sources, Returns)
  IN IF k # 0 THEN sources[k] ELSE Null

\* a resolver that asks the rule table before the saved answers
findAnswerRulesFirst(saved, questionText, options) ==
  LET q == toLowerCase(questionText)
  IN firstAnswer(<<fromRules(q, options), fromSaved(saved, q), yesNoDefault(options)>>)

\* part_000:418-442
findAnswer(saved, questionText, options) ==
  LET q == toLowerCase(questionText)
  IN firstAnswer(<<fromSaved(saved, q), fromRules(q, options), yesNoDefault(options)>>)

Digits == <<"0", "1", "2", "3", "4", "5", "6", "7", "8", "9">>

IsDigit(c) == \E d \in DOMAIN Digits : Digits[d] = c

DigitValue(c) == (CHOOSE d \in DOMAIN Digits : Digits[d] = c) - 1

\* of two numerals with no leading zero, the one that spells the smaller number
NumeralLess(a, b) ==
  \/ Len(a) < Len(b)
  \/ /\ Len(a) = Len(b)
     /\ \E k \in DOMAIN a :
          /\ DigitValue(a[k]) < DigitValue(b[k])
          /\ \A m \in 1..(k - 1) : a[m] = b[m]

\* 2^32 - 2, the largest array index
MaxArrayIndex == <<"4", "2", "9", "4", "9", "6", "7", "2", "9", "4">>

\* a property key that is an array index (a canonical numeral up to 2^32 - 2):
\* Object.entries lists these keys first, in ascending order, and the other
\* keys after them as they were added
isArrayIndex(key) ==
  /\ key # <<>>
  /\ \A k \in DOMAIN key : IsDigit(key[k])
  /\ Len(key) = 1 \/ key[1] # "0"
  /\ ~NumeralLess(MaxArrayIndex, key)

\* where a new key comes to stand among the entries
placeOf(saved, key) ==
  IF isArrayIndex(key)
    THEN 1 + Cardinality({k \in DOMAIN saved :
                            /\ isArrayIndex(saved[k].key)
                            /\ NumeralLess(saved[k].key, key)})
    ELSE Len(saved) + 1

\* an own property of savedAnswers is given a value: a key keeps its place, a
\* new key takes the place its kind gives it
defineAnswer(saved, question, answer) ==
  LET IsKey(e) == e.key = question
      k == FirstIndex(saved, IsKey)
      at == placeOf(saved, question)
  IN IF k # 0 THEN [saved EXCEPT ![k].val = answer]
     ELSE SubSeq(saved, 1, at - 1) \o <<[key |-> question, val |-> answer]>>
            \o SubSeq(saved, at, Len(saved))

\* the key that names the prototype of an object
ProtoKey == <<"_", "_", "p", "r", "o", "t", "o", "_", "_">>

\* part_000:51: savedAnswers[question] = answer. With the key __proto__ and no
\* own property of that name (JSON.parse can have made one) the assignment
\* goes to the setter of Object.prototype, which ignores a string: nothing is
\* stored.
setAnswer(saved, question, answer) ==
  LET IsKey(e) == e.key = question
  IN IF question = ProtoKey /\ FirstIndex(saved, IsKey) = 0 THEN saved
     ELSE defineAnswer(saved, question, answer)

\* part_000:52, JSON.stringify: the entries as key/value pairs, in order
stringifyAnswers(saved) ==
  [kind |-> "json", text |-> [k \in DOMAIN saved |-> <<saved[k].key, saved[k].val>>]]

\* JSON.parse of an object: the members are defined one after the other as
\* own properties, the key __proto__ like any other
RECURSIVE parseAnswers(_, _)
parseAnswers(text, saved) ==
  IF text = <<>> THEN saved
  ELSE parseAnswers(Tail(text), defineAnswer(saved, Head(text)[1], Head(text)[2]))

\* part_000:40-48: what savedAnswers holds once the module is loaded: whether
\* it is null, and its entries. An absent file and a file JSON.parse rejects
\* leave the {} of line 40. The value parsed is assigned before Object.keys
\* looks at it (line 44), so the null of a file "null" stays when Object.keys
\* throws into the empty catch block. Nothing is thrown to the importer.
loadAnswers(file) ==
  CASE file.kind = "json" -> [isNull |-> FALSE, entries |-> parseAnswers(file.text, <<>>)]
    [] file.kind = "null" -> [isNull |-> TRUE, entries |-> <<>>]
    [] OTHER -> [isNull |-> FALSE, entries |-> <<>>]

\* part_000:345-370: what the extraction makes of one label
questionOf(el) ==
  [label |-> toLowerCase(trim(el.text)),
   type |-> el.type,
   id |-> el.id,
   options |-> IF el.type = "select" THEN el.options ELSE <<>>]

\* how the page answers one question's form action: the answers file can be
\* written (one of WriteOutcomes), the text input is visible, the page call
\* throws
Outcomes == [write : WriteOutcomes, visible : BOOLEAN, throws : BOOLEAN]
AllGood == [write |-> "ok", visible |-> TRUE, throws |-> FALSE]

\* part_000:387-414: the form action taken for an answer; "threw" is a page
\* call that threw into the catch block
applyAnswer(q, out) ==
  LET made(kind) == IF out.throws THEN "threw" ELSE kind
  IN CASE q.type = "select" -> made("selectOption")
       [] q.type = "radio" -> made("radioClick")
       [] q.type \in {"text", "textarea"} ->
            IF q.id # "" /\ out.visible THEN made("fill") ELSE "none"
       [] OTHER -> "none"

\* ------------------------------------------------------------------- state
VARIABLES
  jobsFile,       \* the catalogue file: absent, malformed, null, or the JSON
                  \*   last written
  runs,           \* launches of the program so far
  mainPc,         \* where main() is: "search", "merge", "loop", "applying",
                  \*   "delay", "idle" (awaiting forever), "exited" (process.exit)
  pageOpen,       \* the browser tab is still open
  freshJobs,      \* index.ts:60, until the merge has used it
  allJobs,        \* index.ts:66
  toApply,        \* index.ts:72, as positions in allJobs
  i,              \* index.ts:81, counted from 0
  clock,          \* what new Date() reads
  attempted,      \* calls of applyToSeekJob made in this run
  writeFailed,    \* the last saveJobs call threw
  indeed,         \* the running call of applyToJob of the Indeed adapter, a
                  \* record:
                  \*   pc            "none", "entered", "apply", "fill", "resume",
                  \*                 "submit", "returned"
                  \*   applyClicked  part_001:139
                  \*   field         the fillInputByLabel call that is next
                  \*   filled        the labels an input was filled for
                  \*   pattern       the pattern the last fill went by, 0 for none
                  \*   uploaded      part_001:158
                  \*   submitClicked part_001:166
                  \*   result        the value returned
                  \*   raised        the page call that threw, "none" if none did
  flow            \* the Seek adapter: its module state and the running call of
                  \* applyToSeekJob, a record:
                  \*   savedAnswers  part_000:40-42, the entries in insertion order
                  \*   nullStore     savedAnswers is null
                  \*   answersFile   the answers file: absent, malformed, null
                  \*                 or the JSON last written
                  \*   pc            "none", "entered", "loop", "continued" (pause
                  \*                 after a continue click), "confirm" (post-submit
                  \*                 wait), "returned", "threw"
                  \*   clicked       part_000:204
                  \*   step          part_000:221
                  \*   screen        the screen the last iteration read, up to
                  \*                 its continue search
                  \*   late          the controls its submit search found, <<>>
                  \*                 when it made no such search
                  \*   continued     part_000:274, the variable
                  \*   submitClicked part_000:283, the variable
                  \*   dispatched    the last click made: "apply" (the apply
                  \*                 trigger), or the search of the last iteration
                  \*                 whose callback clicked a control ("continue",
                  \*                 "submit"), "none" if none did; the call may
                  \*                 have thrown after the click
                  \*   target        position of the element clicked among the
                  \*                 controls the search read
                  \*   result        the value returned
                  \*   raised        the page call that threw, "none" if none did
                  \*   closed        the throw was the tab closing
                  \*   confirm       how the post-submit wait ended
                  \*   iterations    loop iterations run
                  \*   everyCont     every iteration so far ran to its end on a
                  \*                 screen with no completion signal and an
                  \*                 enabled continue control
                  \*   calls         the page calls the last iteration made, in order
                  \*   answered      the (label, answer) pairs resolved since the
                  \*                 question pass began
                  \*   asked         questions the pass has looked at
                  \*   last          the last question looked at, with its answer,
                  \*                 the form action taken and savedAnswers as it
                  \*                 was before the question

mainVars ==
  <<jobsFile, runs, mainPc, pageOpen, freshJobs, allJobs, toApply, i, clock,
    attempted, writeFailed>>

vars == <<mainVars, flow, indeed>>

NoScreen == [body |-> <<>>, controls |-> <<>>, questions |-> <<>>]

NoQuestion ==
  [label |-> <<>>, type |-> "none", id |-> "", options |-> <<>>, answer |-> Null,
   action |-> "none", before |-> <<>>]

\* no call of applyToSeekJob is running
FlowIdle ==
  [pc |-> "none", clicked |-> FALSE, step |-> 0, screen |-> NoScreen,
   late |-> <<>>, dispatched |-> "none",
   continued |-> FALSE, submitClicked |-> FALSE, target |-> 0, result |-> FALSE,
   raised |-> "none", closed |-> FALSE, confirm |-> "none", iterations |-> 0,
   everyCont |-> TRUE, savedAnswers |-> <<>>, nullStore |-> FALSE,
   answersFile |-> AbsentFile,
   calls |-> <<>>, answered |-> {}, asked |-> 0, last |-> NoQuestion]

FlowEntered == [FlowIdle EXCEPT !.pc = "entered"]

\* the record f with the module state of g: what a call leaves in savedAnswers
\* and in the answers file stays when the call record is renewed
withAnswersOf(f, g) ==
  [f EXCEPT !.savedAnswers = g.savedAnswers, !.nullStore = g.nullStore,
            !.answersFile = g.answersFile]

\* part_000:40-48: the module as a new process loads it
startup(file) ==
  [FlowIdle EXCEPT !.answersFile = file,
                   !.savedAnswers = loadAnswers(file).entries,
                   !.nullStore = loadAnswers(file).isNull]

\* part_000:50-53: the write may fail, and the failure is swallowed
persistAnswer(f, question, answer, w) ==
  LET saved == setAnswer(f.savedAnswers, question, answer)
  IN [f EXCEPT !.savedAnswers = saved,
               !.answersFile = writeFileSync(@, stringifyAnswers(saved), w)]

\* part_000:375-415: the loop body of the question pass for the label el. On
\* a savedAnswers that is null the Object.entries of findAnswer (part_000:65)
\* throws a TypeError, which ends the pass.
answerQuestion(f, el, out) ==
  LET q == questionOf(el)
      answer == IF q.label = <<>> \/ f.nullStore THEN Null
                ELSE findAnswer(f.savedAnswers, q.label, q.options)
      seen == [f EXCEPT !.asked = f.asked + 1]
      looked(action) ==
        [label |-> q.label, type |-> q.type, id |-> q.id, options |-> q.options,
         answer |-> answer, action |-> action, before |-> f.savedAnswers]
  IN IF q.label # <<>> /\ f.nullStore
       THEN [seen EXCEPT !.last = looked("none"), !.raised = "findAnswer"]
     ELSE IF ~Truthy(answer) THEN [seen EXCEPT !.last = looked("none")]
     ELSE [persistAnswer(seen, q.label, answer[1], out.write) EXCEPT
             !.answered = f.answered \cup {[label |-> q.label, answer |-> answer[1]]},
             !.last = looked(applyAnswer(q, out))]

RECURSIVE answerLoop(_, _, _)
answerLoop(f, els, out) ==
  IF els = <<>> \/ f.raised # "none" THEN f
  ELSE answerLoop(answerQuestion(f, Head(els), out), Tail(els), out)

\* part_000:339-416: the pass over the labels of the screen; `out` is how the
\* page answers every form action of the pass
answerScreeningQuestions(f, els, out) ==
  answerLoop([f EXCEPT !.answered = {}, !.asked = 0, !.last = NoQuestion], els, out)

\* ---------------------------------------------------------- applyToSeekJob
\* a try block that starts only after the navigation
caughtAfterGoto(point) == point # "goto"

\* part_000:193-334: every page call of the function is inside the try block
caught(point) == TRUE

\* part_000:326-334: the value the catch block returns
outerCatch(closed) == FALSE

\* part_000:297-317: the value returned once the submit click was dispatched
submitReturn(how) == TRUE

\* a page call threw at `point`; `closed` says the tab is gone
throw(f, point, closed) ==
  IF caught(point)
    THEN [f EXCEPT !.raised = point, !.closed = closed, !.pc = "returned",
                   !.result = outerCatch(closed)]
    ELSE [f EXCEPT !.raised = point, !.closed = closed, !.pc = "threw"]

\* what the page does during a step: the page call that throws ("none" for
\* none) and whether the throw is the tab closing
Faults(points) ==
  {[fault |-> "none", closed |-> FALSE]}
    \cup [fault : points, closed : BOOLEAN]

\* part_000:194-218: navigation and the apply trigger. in.sel is the first
\* selector with a visible element, 0 when none is visible.
\* in.after: the throw came from the wait after the click (part_000:209), the
\* apply trigger has been clicked.
OpenInputs ==
  UNION { {[sel |-> sel, fault |-> e.fault, closed |-> e.closed, after |-> after] :
             e \in Faults({"goto"} \cup (IF sel # 0 THEN {"applyClick"} ELSE {})),
             after \in BOOLEAN} :
          sel \in 0..Len(applySelectors) }

\* a flow that goes on to the form whether or not it clicked an apply trigger
openAndApplyAnyway(f, in) ==
  IF in.fault # "none" THEN throw(f, in.fault, in.closed)
  ELSE [f EXCEPT !.clicked = in.sel # 0, !.pc = "loop", !.step = 1]

openAndApply(f, in) ==
  IF in.fault = "applyClick" /\ in.after
    THEN throw([f EXCEPT !.dispatched = "apply"], in.fault, in.closed)
  ELSE IF in.fault # "none" THEN throw(f, in.fault, in.closed)
  ELSE IF in.sel = 0 THEN [f EXCEPT !.pc = "returned", !.result = FALSE]
  ELSE [f EXCEPT !.clicked = TRUE, !.dispatched = "apply", !.pc = "loop", !.step = 1]

HasEnabled(controls, Hit(_)) ==
  \E k \in DOMAIN controls : Hit(controls[k]) /\ ~controls[k].disabled

IsContinueControl(el) == MatchesTexts(el, ContinueTexts)

\* the page calls of one iteration that can throw on the screen `scr`: the
\* wait the iteration starts with (part_000:222), the completion check, the
\* cover-letter skip, the question pass, the scroll, the continue search and,
\* when that clicked nothing, the submit search. A throw of one of the waits
\* at part_000:263, 271 leaves what a throw of the call before it leaves.
StepFaults(scr) ==
  {"stepWait", "check"}
    \cup (IF isDone(scr.body) THEN {}
          ELSE {"cover", "questions", "scroll", "continue"})
    \cup (IF ~isDone(scr.body) /\ clickButtonByText(scr.controls, ContinueTexts) = 0
            THEN {"submit"} ELSE {})

\* part_000:274, 283: the two searches are separate page calls, and the page
\* may have changed between them. The controls the submit search can find
\* when the continue search found those of `scr`: the same, or what the page
\* shows by then.
LateControls(scr) ==
  {scr.controls}
    \cup (IF ~isDone(scr.body) /\ clickButtonByText(scr.controls, ContinueTexts) = 0
            THEN {<<>>, <<SubmitApplicationBtn>>, <<ContinueBtn, SubmitApplicationBtn>>}
            ELSE {})

\* a search call that throws does so before its callback has clicked, or after
\* (the click started a navigation that destroyed the execution context)
ClickedFirst(fault) == IF fault \in {"continue", "submit"} THEN BOOLEAN ELSE {FALSE}

WriteFails == [write |-> "refused", visible |-> TRUE, throws |-> TRUE]
WriteCut == [write |-> "cut", visible |-> TRUE, throws |-> FALSE]

\* how the page answers the question pass on the screen `scr`
PassOutcomes(scr) ==
  IF scr.questions = <<>> THEN {AllGood} ELSE {AllGood, WriteFails, WriteCut}

\* what the page can do during one iteration on the screen `scr`
StepInputs(scr) ==
  UNION { {[scr |-> scr, fault |-> e.fault, closed |-> e.closed, out |-> out,
            late |-> late, after |-> after] :
             out \in PassOutcomes(scr), late \in LateControls(scr),
             after \in ClickedFirst(e.fault)} :
          e \in Faults(StepFaults(scr)) }

\* an iteration that goes on to the next step when it found nothing to click
noActionableControlGoesOn(f) == [f EXCEPT !.pc = "continued"]

\* part_000:319-324: no continue and no submit control was clicked; the loop
\* breaks and the call returns false
noActionableControl(f) == [f EXCEPT !.pc = "returned", !.result = FALSE]

\* part_000:226-295: the page calls of one iteration that read the page or act
\* on it, in the order made; the wait at part_000:222 comes before them all
CallOrder == <<"check", "cover", "questions", "scroll", "continue", "submit">>

callsUpTo(point) ==
  IF point = "stepWait" THEN <<>>
  ELSE SubSeq(CallOrder, 1, CHOOSE k \in DOMAIN CallOrder : CallOrder[k] = point)

\* part_000:221-321: one iteration of the step loop, up to the click it makes;
\* `done` is what the completion check read. The page shows in.scr up to the
\* continue search and the controls in.late at the submit search. The question
\* pass has run once the extraction of the questions has returned, and ends
\* the iteration (inPass) when findAnswer throws. A search call that throws
\* has clicked already when in.after says so. A throw of the wait at
\* part_000:222 comes before the page is read.
iterate(f, in, done) ==
  LET scr == in.scr
      cont == clickButtonByText(scr.controls, ContinueTexts)
      sub == findSubmitBtn(in.late)
      ran == in.fault = "none" /\ ~done
      passed == ~done /\ in.fault \notin {"stepWait", "check", "cover", "questions"}
      searched == ~done /\ in.fault \notin {"stepWait", "check", "cover", "questions",
                                              "scroll"}
      contHit == searched /\ cont # 0 /\ (in.fault = "continue" => in.after)
      looked == searched /\ in.fault # "continue" /\ cont = 0
      subHit == looked /\ sub # 0 /\ (in.fault = "submit" => in.after)
      seen(asked) ==
        [asked EXCEPT
           !.screen = IF in.fault = "stepWait" THEN NoScreen ELSE scr,
           !.late = IF looked THEN in.late ELSE <<>>,
           !.iterations = f.iterations + 1,
           !.continued = (ran /\ cont # 0),
           !.submitClicked = (ran /\ cont = 0 /\ sub # 0),
           !.dispatched = IF contHit THEN "continue"
                          ELSE IF subHit THEN "submit" ELSE "none",
           !.target = IF contHit THEN cont ELSE IF subHit THEN sub ELSE 0,
           !.everyCont =
              (f.everyCont /\ ran /\ HasEnabled(scr.controls, IsContinueControl)),
           !.calls = IF in.fault # "none" THEN callsUpTo(in.fault)
                     ELSE IF done THEN callsUpTo("check")
                     ELSE IF cont # 0 THEN callsUpTo("continue")
                     ELSE callsUpTo("submit")]
      inPass(asked) ==
        [asked EXCEPT
           !.raised = "none",
           !.screen = scr,
           !.late = <<>>,
           !.iterations = f.iterations + 1,
           !.continued = FALSE,
           !.submitClicked = FALSE,
           !.dispatched = "none",
           !.target = 0,
           !.everyCont = FALSE,
           !.calls = callsUpTo("questions")]
      end(asked, g) ==
        IF asked.raised # "none" THEN throw(inPass(asked), asked.raised, FALSE)
        ELSE IF in.fault # "none" THEN throw(g, in.fault, in.closed)
        ELSE IF done THEN [g EXCEPT !.pc = "returned", !.result = TRUE]
        ELSE IF cont # 0 THEN [g EXCEPT !.pc = "continued"]
        ELSE IF sub # 0 THEN [g EXCEPT !.pc = "confirm"]
        ELSE noActionableControl(g)
      pass(asked) == end(asked, seen(asked))
  IN pass(IF passed THEN answerScreeningQuestions(f, scr.questions, in.out)
          ELSE [f EXCEPT !.answered = {}, !.asked = 0, !.last = NoQuestion])

\* an iteration that does not look for the completion signal first
stepIterationCheckLast(f, in) == iterate(f, in, FALSE)

stepIteration(f, in) == iterate(f, in, isDone(in.scr.body))

PauseInputs == Faults({"pause"})

\* part_000:276-278, 221, 323-324: after a continue click the flow pauses and the
\* loop takes its next turn on the page that follows, or ends at the ceiling
nextStep(f, in) ==
  LET left == [f EXCEPT !.screen = NoScreen, !.late = <<>>, !.continued = FALSE,
                        !.dispatched = "none", !.target = 0,
                        !.calls = <<>>, !.answered = {}, !.asked = 0,
                        !.last = NoQuestion]
  IN IF in.fault # "none" THEN throw(f, in.fault, in.closed)
     ELSE [left EXCEPT !.step = f.step + 1,
                       !.pc = IF f.step + 1 <= MaxSteps THEN "loop" ELSE "returned",
                       !.result = FALSE]

WaitInputs ==
  UNION { {[body |-> body, fault |-> e.fault, closed |-> e.closed] :
             e \in Faults({"wait"})} : body \in Bodies }

\* part_000:297-317: the bounded wait after the submit click. The page shows
\* in.body when the wait ends; whatever the wait throws is swallowed.
awaitConfirmation(f, in) ==
  LET how == IF in.fault # "none" THEN "error"
             ELSE IF isConfirmed(in.body) THEN "seen" ELSE "timeout"
  IN [f EXCEPT !.confirm = how,
               !.raised = in.fault,
               !.closed = in.closed,
               !.result = submitReturn(how),
               !.pc = "returned"]

\* the step the flow takes from where it is
advance(f, in) ==
  CASE f.pc = "entered" -> openAndApply(f, in)
    [] f.pc = "loop" -> stepIteration(f, in)
    [] f.pc = "continued" -> nextStep(f, in)
    [] f.pc = "confirm" -> awaitConfirmation(f, in)
    [] OTHER -> f

\* part_000:189-335: one whole call, the page behaving as `script` says, one
\* entry per step taken
RECURSIVE applyToSeekJob(_, _)
applyToSeekJob(f, script) ==
  IF script = <<>> \/ f.pc \in {"returned", "threw"} THEN f
  ELSE applyToSeekJob(advance(f, Head(script)), Tail(script))

Ok == [fault |-> "none", closed |-> FALSE]
Lost == [fault |-> "goto", closed |-> TRUE]
Open(sel, e) == [sel |-> sel, fault |-> e.fault, closed |-> e.closed, after |-> FALSE]
ShowForm(controls, body, questions) ==
  [scr |-> [body |-> body, controls |-> controls, questions |-> questions],
   fault |-> "none", closed |-> FALSE, out |-> AllGood, late |-> controls,
   after |-> FALSE]
Show(controls, body) == ShowForm(controls, body, <<>>)
After(body) == [body |-> body, fault |-> "none", closed |-> FALSE]

RECURSIVE Times(_, _)
Times(n, s) == IF n = 0 THEN <<>> ELSE s \o Times(n - 1, s)

\* the pages the batch driver is checked against: no apply trigger; a tab that
\* closes during navigation; a navigation timeout; a one-screen form submitted
\* with and without confirmation; a continue screen then a submit screen; a
\* form with no control; a form with a question; a page already showing the
\* confirmation; a form that offers continue for ever
BatchScripts ==
  { << Open(0, Ok) >>,
    << Open(0, Lost) >>,
    << Open(0, [fault |-> "goto", closed |-> FALSE]) >>,
    << Open(1, Ok), Show(<<SubmitApplicationBtn>>, <<>>), After(<<"K", "e", "e", "p", " ", "i",
          "t", " ", "u", "p">>) >>,
    << Open(2, Ok), Show(<<SubmitApplicationBtn>>, <<>>), After(<<>>) >>,
    << Open(1, Ok), Show(<<ContinueBtn>>, <<>>), Ok,
       Show(<<SubmitApplicationBtn>>, <<>>), After(<<>>) >>,
    << Open(3, Ok), Show(<<>>, <<>>) >>,
    << Open(1, Ok), ShowForm(<<SubmitApplicationBtn>>, <<>>, <<HappyYesNo>>),
       After(<<>>) >>,
    << Open(4, Ok), Show(<<>>, <<"A", "p", "p", "l", "i", "c", "a", "t", "i", "o", "n", " ",
          "S", "u", "b", "m", "i", "t", "t", "e", "d">>) >>,
    << Open(1, Ok) >> \o Times(MaxSteps, << Show(<<ContinueBtn>>, <<>>), Ok >>) }

\* the effect of a flow step outside the function: a closed tab stays closed,
\* an exception that escapes rejects main()
FlowEffect ==
  /\ pageOpen' = (pageOpen /\ ~flow'.closed)
  /\ mainPc' = IF flow'.pc = "threw" THEN "exited" ELSE mainPc
  /\ UNCHANGED <<jobsFile, runs, freshJobs, allJobs, toApply, i, clock, attempted,
                 writeFailed, indeed>>

OpenAndApply ==
  /\ mainPc = "applying"
  /\ flow.pc = "entered"
  /\ \E in \in OpenInputs : flow' = openAndApply(flow, in)
  /\ FlowEffect

StepIteration ==
  /\ mainPc = "applying"
  /\ flow.pc = "loop"
  /\ \E scr \in FlowScreens :
       \E in \in StepInputs(scr) : flow' = stepIteration(flow, in)
  /\ FlowEffect

NextStep ==
  /\ mainPc = "applying"
  /\ flow.pc = "continued"
  /\ \E in \in PauseInputs : flow' = nextStep(flow, in)
  /\ FlowEffect

AwaitConfirmation ==
  /\ mainPc = "applying"
  /\ flow.pc = "confirm"
  /\ \E in \in WaitInputs : flow' = awaitConfirmation(flow, in)
  /\ FlowEffect

\* index.ts:85: the whole call, as main() sees it
ApplyToSeekJob ==
  /\ mainPc = "applying"
  /\ flow.pc = "entered"
  /\ \E script \in BatchScripts : flow' = applyToSeekJob(flow, script)
  /\ FlowEffect

\* ------------------------------------------------------ the Indeed adapter
\* part_001:147-152: the labels applyToJob looks for, in order
IndeedFields ==
  << <<"f", "i", "r", "s", "t", " ", "n", "a", "m", "e">>, <<"l", "a", "s", "t", " ", "n", "a",
        "m", "e">>, <<"f", "u", "l", "l", " ", "n", "a", "m", "e">>, <<"e", "m", "a", "i", "l">>,
     <<"p", "h", "o", "n", "e">>, <<"t", "e", "l", "e", "p", "h", "o", "n", "e">> >>

\* part_001:182-187: the attribute each pattern of fillInputByLabel tests
fillPatterns == <<"id", "name", "placeholder", "id-first-word">>

IndeedIdle ==
  [pc |-> "none", applyClicked |-> FALSE, field |-> 1, filled |-> {}, pattern |-> 0,
   uploaded |-> FALSE, submitClicked |-> FALSE, result |-> FALSE, raised |-> "none"]

\* part_001:174-177: whatever is thrown inside the function ends it with false
indeedCatch(d, point) == [d EXCEPT !.raised = point, !.pc = "returned", !.result = FALSE]

\* part_001:132-133: the navigation
indeedGoto(d, fault) ==
  IF fault THEN indeedCatch(d, "goto") ELSE [d EXCEPT !.pc = "apply"]

\* part_001:136-141: the apply button is clicked if it is visible; the function
\* goes on to the form either way. A throw comes from the click or, the button
\* clicked (`after`), from the wait that follows it.
indeedApply(d, visible, fault, after) ==
  IF visible /\ fault THEN indeedCatch([d EXCEPT !.applyClicked = after], "applyClick")
  ELSE [d EXCEPT !.applyClicked = visible, !.pc = "fill", !.field = 1]

\* part_001:180-196: the first pattern with a visible input is filled; hit is
\* its place in fillPatterns, 0 when no pattern has one
fillInputByLabel(d, label, hit, fault) ==
  IF hit # 0 /\ fault THEN indeedCatch(d, "fill")
  ELSE IF hit # 0 THEN [d EXCEPT !.filled = @ \cup {label}, !.pattern = hit]
  ELSE [d EXCEPT !.pattern = 0]

\* part_001:147-152: one of the six fillInputByLabel calls
indeedFill(d, hit, fault) ==
  LET done == fillInputByLabel(d, IndeedFields[d.field], hit, fault)
  IN IF done.pc = "returned" THEN done
     ELSE IF d.field < Len(IndeedFields) THEN [done EXCEPT !.field = d.field + 1]
     ELSE [done EXCEPT !.pc = "resume"]

\* part_001:155-160: the resume is uploaded when the file exists and a file
\* input is visible
indeedResume(d, exists, visible, fault) ==
  IF exists /\ visible /\ fault THEN indeedCatch(d, "upload")
  ELSE [d EXCEPT !.uploaded = exists /\ visible, !.pc = "submit"]

\* part_001:163-172: the submit button is clicked if it is visible; a click
\* that throws may have reached the button first (`after`)
indeedSubmit(d, visible, fault, after) ==
  IF visible /\ fault THEN indeedCatch([d EXCEPT !.submitClicked = after], "submitClick")
  ELSE [d EXCEPT !.submitClicked = visible, !.result = visible, !.pc = "returned"]

\* part_001:128: a call begins
IndeedCall ==
  /\ indeed.pc = "none"
  /\ indeed' = [IndeedIdle EXCEPT !.pc = "entered"]
  /\ UNCHANGED <<mainVars, flow>>

IndeedGoto ==
  /\ indeed.pc = "entered"
  /\ \E fault \in BOOLEAN : indeed' = indeedGoto(indeed, fault)
  /\ UNCHANGED <<mainVars, flow>>

IndeedApply ==
  /\ indeed.pc = "apply"
  /\ \E visible, fault, after \in BOOLEAN :
       indeed' = indeedApply(indeed, visible, fault, after)
  /\ UNCHANGED <<mainVars, flow>>

IndeedFill ==
  /\ indeed.pc = "fill"
  /\ \E hit \in 0..Len(fillPatterns), fault \in BOOLEAN :
       indeed' = indeedFill(indeed, hit, fault)
  /\ UNCHANGED <<mainVars, flow>>

IndeedResume ==
  /\ indeed.pc = "resume"
  /\ \E exists, visible, fault \in BOOLEAN :
       indeed' = indeedResume(indeed, exists, visible, fault)
  /\ UNCHANGED <<mainVars, flow>>

IndeedSubmit ==
  /\ indeed.pc = "submit"
  /\ \E visible, fault, after \in BOOLEAN :
       indeed' = indeedSubmit(indeed, visible, fault, after)
  /\ UNCHANGED <<mainVars, flow>>

\* the caller has the result and may call again
IndeedDone ==
  /\ indeed.pc = "returned"
  /\ indeed' = IndeedIdle
  /\ UNCHANGED <<mainVars, flow>>

\* -------------------------------------------------------------------- main
Init ==
  /\ jobsFile \in {AbsentFile, MalformedFile}
  /\ runs = 1
  /\ mainPc = "search"
  /\ pageOpen = TRUE
  /\ clock = 1
  /\ freshJobs = <<>>
  /\ allJobs = <<>>
  /\ toApply = <<>>
  /\ i = 0
  /\ attempted = 0
  /\ writeFailed = FALSE
  /\ flow \in {startup(AbsentFile), startup(MalformedFile)}
  /\ indeed = IndeedIdle

\* index.ts:54-60: launch, login, search. `fails` is a throw of any of them.
Search ==
  /\ mainPc = "search"
  /\ \E cards \in SeqsUpTo(Cards, MaxCards), fails \in BOOLEAN :
       IF fails
         THEN mainPc' = "exited" /\ freshJobs' = freshJobs
         ELSE mainPc' = "merge" /\ freshJobs' = searchSeek(cards)
  /\ UNCHANGED <<jobsFile, runs, pageOpen, allJobs, toApply, i, clock, attempted,
                 writeFailed, flow, indeed>>

\* index.ts:62-74: load, merge, save, build the queue. A loaded value that is
\* not an array has no map method: line 64 throws a TypeError before anything
\* is merged or written, main rejects and the process exits. `w` is how the
\* writeFileSync of saveJobs ends; when it throws main rejects and the process
\* exits.
Merge ==
  /\ mainPc = "merge"
  /\ \E w \in WriteOutcomes :
       LET existingJobs == loadJobs(jobsFile)
           merged == mergeJobs(existingJobs.items, freshJobs)
       IN IF ~existingJobs.isArray
            THEN /\ mainPc' = "exited"
                 /\ UNCHANGED <<jobsFile, allJobs, toApply, writeFailed>>
            ELSE /\ allJobs' = merged
                 /\ writeFailed' = (w # "ok")
                 /\ jobsFile' = writeFileSync(jobsFile, saveJobs(merged), w)
                 /\ toApply' = IF w = "ok" THEN buildQueue(merged) ELSE toApply
                 /\ mainPc' = IF w = "ok" THEN "loop" ELSE "exited"
  /\ UNCHANGED <<runs, pageOpen, freshJobs, i, clock, attempted, flow, indeed>>

\* index.ts:81-85: the loop takes the next queued job and calls applyToSeekJob
BeginAttempt ==
  /\ mainPc = "loop"
  /\ i < Len(toApply)
  /\ mainPc' = "applying"
  /\ attempted' = attempted + 1
  /\ flow' = withAnswersOf(FlowEntered, flow)
  /\ freshJobs' = <<>>
  /\ UNCHANGED <<jobsFile, runs, pageOpen, allJobs, toApply, i, clock, writeFailed,
                 indeed>>

\* index.ts:87-99: write the outcome back, save, count, decide on the delay
RecordOutcome ==
  /\ mainPc = "applying"
  /\ flow.pc = "returned"
  /\ \E w \in WriteOutcomes :
       LET job == allJobs[toApply[i + 1]]
           updated == updateOutcome(allJobs, job.url, flow.result, clock)
       IN /\ allJobs' = updated
          /\ clock' = clock + 1
          /\ writeFailed' = (w # "ok")
          /\ jobsFile' = writeFileSync(jobsFile, saveJobs(updated), w)
          /\ IF w # "ok"
               THEN mainPc' = "exited" /\ i' = i
               ELSE IF delayDue(i, Len(toApply))
                 THEN mainPc' = "delay" /\ i' = i
                 ELSE mainPc' = "loop" /\ i' = i + 1
  /\ flow' = withAnswersOf(FlowIdle, flow)
  /\ UNCHANGED <<runs, pageOpen, freshJobs, toApply, attempted, indeed>>

\* index.ts:99-103: the pause between two applications; waitForTimeout throws
\* on a tab that is closed or closes during the wait (`closes`), main rejects
\* and the process exits
Delay ==
  /\ mainPc = "delay"
  /\ \E closes \in BOOLEAN :
       /\ pageOpen' = (pageOpen /\ ~closes)
       /\ IF pageOpen'
            THEN mainPc' = "loop" /\ i' = i + 1
            ELSE mainPc' = "exited" /\ i' = i
  /\ UNCHANGED <<jobsFile, runs, freshJobs, allJobs, toApply, clock,
                 attempted, writeFailed, flow, indeed>>

\* index.ts:106-110: the queue is done; the summary is printed and main waits
Finish ==
  /\ mainPc = "loop"
  /\ i >= Len(toApply)
  /\ mainPc' = "idle"
  /\ freshJobs' = <<>>
  /\ UNCHANGED <<jobsFile, runs, pageOpen, allJobs, toApply, i, clock, attempted,
                 writeFailed, flow, indeed>>

\* the operator starts the program again: memory is new, the files are kept;
\* the adapter module loads the answers file before main() runs
Relaunch ==
  /\ mainPc \in {"idle", "exited"}
  /\ runs < MaxRuns
  /\ runs' = runs + 1
  /\ mainPc' = "search"
  /\ pageOpen' = TRUE
  /\ freshJobs' = <<>>
  /\ allJobs' = <<>>
  /\ toApply' = <<>>
  /\ i' = 0
  /\ attempted' = 0
  /\ writeFailed' = FALSE
  /\ flow' = startup(flow.answersFile)
  /\ UNCHANGED <<jobsFile, clock, indeed>>

Next ==
  \/ Search
  \/ Merge
  \/ BeginAttempt
  \/ ApplyToSeekJob
  \/ RecordOutcome
  \/ Delay
  \/ Finish
  \/ Relaunch

Spec == Init /\ [][Next]_vars

\* the program started on files of any content: absent, rejected by
\* JSON.parse, or holding the JSON value null
LoadInit ==
  /\ jobsFile \in {AbsentFile, MalformedFile, NullFile}
  /\ runs = 1
  /\ mainPc = "search"
  /\ pageOpen = TRUE
  /\ clock = 1
  /\ freshJobs = <<>>
  /\ allJobs = <<>>
  /\ toApply = <<>>
  /\ i = 0
  /\ attempted = 0
  /\ writeFailed = FALSE
  /\ flow \in {startup(AbsentFile), startup(MalformedFile), startup(NullFile)}
  /\ indeed = IndeedIdle

LoadSpec == LoadInit /\ [][Next]_vars

\* one call of applyToSeekJob, step by step, on the first job of a one-job
\* catalogue, against every screen
FlowInit ==
  /\ jobsFile = saveJobs(<<NewJob("Analyst", Href(SiteOrigin, "/job/1"))>>)
  /\ runs = 1
  /\ mainPc = "loop"
  /\ pageOpen = TRUE
  /\ clock = 1
  /\ freshJobs = <<NewJob("Analyst", Href(SiteOrigin, "/job/1"))>>
  /\ allJobs = freshJobs
  /\ toApply = <<1>>
  /\ i = 0
  /\ attempted = 0
  /\ writeFailed = FALSE
  /\ flow = FlowIdle
  /\ indeed = IndeedIdle

FlowNext ==
  \/ BeginAttempt
  \/ OpenAndApply
  \/ StepIteration
  \/ NextStep
  \/ AwaitConfirmation

FlowSpec == FlowInit /\ [][FlowNext]_vars

IndeedInit ==
  /\ jobsFile = AbsentFile
  /\ runs = 1
  /\ mainPc = "idle"
  /\ pageOpen = TRUE
  /\ clock = 1
  /\ freshJobs = <<>>
  /\ allJobs = <<>>
  /\ toApply = <<>>
  /\ i = 0
  /\ attempted = 0
  /\ writeFailed = FALSE
  /\ flow = FlowIdle
  /\ indeed = IndeedIdle

IndeedNext ==
  \/ IndeedCall
  \/ IndeedGoto
  \/ IndeedApply
  \/ IndeedFill
  \/ IndeedResume
  \/ IndeedSubmit
  \/ IndeedDone

\* applyToJob of the Indeed adapter, call after call, against every page
IndeedSpec == IndeedInit /\ [][IndeedNext]_vars

\* ------------------------------------------------------------ the resolver
RightToWork == <<"D", "o", " ", "y", "o", "u", " ", "h", "a", "v", "e", " ", "t", "h", "e", " ",
      "r", "i", "g", "h", "t", " ", "t", "o", " ", "w", "o", "r", "k", " ", "i", "n", " ", "A",
      "u", "s", "t", "r", "a", "l", "i", "a", " ", "?">>
Happy == <<"A", "r", "e", " ", "y", "o", "u", " ", "h", "a", "p", "p", "y", " ", "?">>
NoticePeriod == Padded(<<"N", "o", "t", "i", "c", "e", " ", "P", "e", "r", "i", "o", "d">>)
Blank == <<" ", "\t">>

Labels == {RightToWork, Happy, NoticePeriod, Blank}

OptionTexts == { <<"Y", "e", "s">>, <<"N", "o">>, <<"y", "e", "s", " ", "p", "l", "e", "a", "s",
      "e">>, <<"W", "e", "e", "k", "s">>, <<>> }

InputTypes == {"select", "radio", "checkbox", "text", "textarea"}

\* every label with every kind of input; only a select has options. An input
\* with no id is one its label encloses (part_000:348), and then the texts of
\* a select's options are part of the label's textContent.
Questions ==
  LET RECURSIVE Joined(_)
      Joined(texts) == IF texts = <<>> THEN <<>> ELSE Head(texts) \o Joined(Tail(texts))
      Selects == SeqsUpTo(OptionTexts, MaxOptions)
  IN { Field(text, "select", "q1", options) : text \in Labels, options \in Selects }
       \cup { Field(text \o Joined(options), "select", "", options) :
                 text \in Labels, options \in Selects }
       \cup { Field(text, type, id, <<>>) :
                 text \in Labels, type \in InputTypes \ {"select"}, id \in {"", "q1"} }

\* the answers files a run can find: none, one that does not parse, and files
\* written by earlier runs or by hand
AnswerFiles ==
  { AbsentFile, MalformedFile,
    stringifyAnswers(<< [key |-> <<"w", "o", "r", "k">>, val |-> <<"N", "o">>] >>),
    stringifyAnswers(<< [key |-> <<"H", "a", "p", "p", "y">>, val |-> <<"M", "a", "y", "b", "e">>],
                        [key |-> <<"y", "o", "u">>, val |-> <<"N", "o">>] >>),
    stringifyAnswers(<< [key |-> <<"w", "o", "r", "k">>, val |-> <<"N", "o">>],
                        [key |-> toLowerCase(RightToWork), val |-> <<"Y", "e", "s">>] >>) }

\* the question pass of an application under way, on a store as a run finds it
AnswerInit ==
  /\ jobsFile = saveJobs(<<NewJob("Analyst", Href(SiteOrigin, "/job/1"))>>)
  /\ runs = 1
  /\ mainPc = "applying"
  /\ pageOpen = TRUE
  /\ clock = 1
  /\ freshJobs = <<>>
  /\ allJobs = <<NewJob("Analyst", Href(SiteOrigin, "/job/1"))>>
  /\ toApply = <<1>>
  /\ i = 0
  /\ attempted = 1
  /\ writeFailed = FALSE
  /\ flow \in {[startup(file) EXCEPT !.pc = "loop", !.clicked = TRUE, !.step = 1] :
                 file \in AnswerFiles}
  /\ indeed = IndeedIdle

\* part_000:375-415: the pass takes the next label, one of Q
Answer(Q) ==
  /\ mainPc = "applying"
  /\ flow.pc = "loop"
  /\ \E el \in Q, out \in Outcomes : flow' = answerQuestion(flow, el, out)
  /\ UNCHANGED <<mainVars, indeed>>

\* the first question of a pass, any question
ResolveQuestion == flow.asked = 0 /\ Answer(Questions)

ResolveNext == ResolveQuestion

\* findAnswer and the loop body around it, on every question
ResolveSpec == AnswerInit /\ [][ResolveNext]_vars

\* the questions a run of passes is checked against: a text field and a select
\* a rule knows, selects and fields no rule knows, a label that is blank, a
\* select whose only option has no text, a select whose label is the key
\* that names an object's prototype
PassQuestions ==
  { Field(RightToWork, "text", "q1", <<>>),
    Field(RightToWork, "select", "q2", << <<"N", "o">>, <<>>, <<"Y", "e", "s">> >>),
    Field(Happy, "select", "q3", << <<"Y", "e", "s">>, <<"N", "o">> >>),
    Field(Happy, "text", "", <<>>),
    Field(Happy, "checkbox", "q4", <<>>),
    Field(Blank, "select", "q5", << <<"Y", "e", "s">>, <<"N", "o">> >>),
    Field(NoticePeriod, "radio", "q6", <<>>),
    Field(NoticePeriod, "select", "q7", << <<>> >>),
    Field(<<"_", "_", "P", "R", "O", "T", "O", "_", "_", " ">>, "select", "q8",
          << <<"Y", "e", "s">>, <<"N", "o">> >>) }

AnswerQuestion == flow.asked < MaxQuestions /\ Answer(PassQuestions)

\* the process ends and a new one loads the answers file
Restart ==
  /\ mainPc = "applying"
  /\ flow.pc = "loop"
  /\ flow.asked > 0
  /\ flow' = [startup(flow.answersFile) EXCEPT !.pc = "loop", !.clicked = TRUE,
                                                 !.step = 1]
  /\ UNCHANGED <<mainVars, indeed>>

PassNext ==
  \/ AnswerQuestion
  \/ Restart

\* question after question, over restarts
PassSpec == AnswerInit /\ [][PassNext]_vars

\* the questions one process is given from an empty store: a select whose
\* label holds a rule key and a numeral, with and without a fitting option, a
\* select whose label is that numeral, and questions with other labels
Five == <<"5">>
VisaFive == <<"V", "i", "s", "a", " ", "5">>

LearnQuestions ==
  { Field(VisaFive, "select", "q1", << <<"N", "o">> >>),
    Field(VisaFive, "text", "q1", <<>>),
    Field(Five, "select", "q2", << <<"Y", "e", "s">>, <<"N", "o">> >>),
    Field(Happy, "select", "q3", << <<"N", "o">>, <<"Y", "e", "s">> >>),
    Field(RightToWork, "select", "q4", << <<"N", "o">>, <<"Y", "e", "s">> >>),
    Field(NoticePeriod, "text", "q5", <<>>) }

LearnInit ==
  /\ AnswerInit
  /\ flow.answersFile = AbsentFile

LearnQuestion == flow.asked < MaxLearned /\ Answer(LearnQuestions)

LearnNext == LearnQuestion

\* one process, its store empty at the start, question after question
LearnSpec == LearnInit /\ [][LearnNext]_vars

\* -------------------------------------------------------------- properties
IsSubmitControl(el) == MatchesSubmit(el)

EnabledContinue == HasEnabled(flow.screen.controls, IsContinueControl)
EnabledSubmit == HasEnabled(flow.screen.controls, IsSubmitControl)

\* the controls the search that clicked has read
Sought == IF flow.dispatched = "submit" THEN flow.late ELSE flow.screen.controls

\* the submit search of the last iteration read an enabled submit control
EnabledSubmitFound == HasEnabled(flow.late, IsSubmitControl)

\* the last iteration got as far as looking for its triggers on flow.screen
TriggersConsulted ==
  /\ flow.iterations > 0
  /\ flow.pc \in {"continued", "confirm", "returned"}
  /\ ~isDone(flow.screen.body)
  /\ flow.raised \in {"none", "wait"}

\* C1: in an iteration whose screen has an enabled continue control and an
\* enabled submit control, the continue control is clicked and the submit
\* control is not.
ContinueBeforeSubmit ==
  (TriggersConsulted /\ EnabledContinue /\ EnabledSubmit)
    => (flow.continued /\ ~flow.submitClicked)

\* C2: a call in which nothing threw and every screen had no completion signal
\* and an enabled continue control runs exactly MaxSteps iterations and returns
\* false; no call runs more than MaxSteps iterations.
StepCeiling ==
  /\ flow.iterations <= MaxSteps
  /\ (flow.pc = "returned" /\ flow.clicked /\ flow.raised = "none" /\ flow.everyCont)
       => (flow.iterations = MaxSteps /\ flow.result = FALSE)

\* C3: no disabled control is ever the target of a click, the continue trigger
\* is clicked exactly when an enabled control matches the continue phrases, and
\* when it is not, the submit trigger is clicked exactly when an enabled
\* control matches the submit phrases.
TriggersExcludeDisabled ==
  TriggersConsulted =>
    /\ flow.target # 0 => ~Sought[flow.target].disabled
    /\ flow.continued <=> EnabledContinue
    /\ ~flow.continued => (flow.submitClicked <=> EnabledSubmitFound)

\* C4: once the submit search has clicked the submit control the call is in
\* its bounded wait or has returned true, however the wait ended (confirmation
\* seen, timeout, error); no further iteration follows the click.
SubmitIsTrusted ==
  flow.dispatched = "submit" =>
    \/ flow.pc = "confirm"
    \/ /\ flow.pc = "returned"
       /\ flow.result = TRUE
       /\ flow.confirm \in {"seen", "timeout", "error"}

\* C5: when main() has stopped (it waits for ever, or the process has exited)
\* every job of the queue was attempted.
BatchRunsToTheEnd ==
  mainPc \in {"idle", "exited"} => attempted = Len(toApply)

\* C7: a catalogue write that fails does not end the run.
WriteFailureSwallowed == writeFailed => mainPc # "exited"

\* a text with every letter in lower case
RECURSIVE lowerText(_)
lowerText(t) ==
  IF Len(t) = 0 THEN t
  ELSE LowerChar(SubSeq(t, 1, 1)) \o lowerText(SubSeq(t, 2, Len(t)))

\* a text with the scheme http replaced by https
httpsText(t) ==
  IF Len(t) >= 7 /\ SubSeq(t, 1, 7) = "http://"
    THEN "https://" \o SubSeq(t, 8, Len(t))
    ELSE t

\* the URL normalised in case and in scheme
normalizedUrl(u) ==
  [origin |-> httpsText(lowerText(u.origin)), path |-> lowerText(u.path)]

Distinct(jobs, Key(_)) ==
  \A m, n \in DOMAIN jobs : m # n => Key(jobs[m].url) # Key(jobs[n].url)

\* C8: no two records of the catalogue share a normalised URL (normalised in
\* case and in scheme): of the search results that share one, one record is
\* kept.
NormalizedUrlsUnique == Distinct(allJobs, normalizedUrl)

\* C9: a merge leaves the stored records as they were and where they were,
\* drops every fresh job whose URL is stored already and appends the fresh jobs
\* with unseen URLs, nothing else; when every fresh URL is stored already the
\* length does not change.
MergeKeepsExisting ==
  [][mainPc = "merge" =>
       LET existing == loadJobs(jobsFile).items
           old == Len(existing)
           stored == {existing[m].url : m \in DOMAIN existing}
           unseen == {k \in DOMAIN freshJobs : freshJobs[k].url \notin stored}
       IN /\ Len(allJobs') = old + Cardinality(unseen)
          /\ SubSeq(allJobs', 1, old) = existing
          /\ \A n \in (old + 1)..Len(allJobs') :
               /\ allJobs'[n].url \notin stored
               /\ \E k \in unseen : freshJobs[k] = allJobs'[n]
          /\ \A k \in unseen : \E n \in (old + 1)..Len(allJobs') :
               allJobs'[n] = freshJobs[k]
          /\ (unseen = {}) => Len(allJobs') = old
          /\ mainPc' = "loop" => loadJobs(jobsFile').items = allJobs']_vars

StoredRecordOutlivesFreshCopy ==
  /\ mainPc = "loop"
  /\ Len(allJobs) = 2
  /\ allJobs[1].applied
  /\ allJobs[1].appliedAt # <<>>
  /\ \E k \in DOMAIN freshJobs :
       freshJobs[k].url = allJobs[1].url /\ freshJobs[k].title # allJobs[1].title

\* C10: the write-back after an attempt changes the record of the attempted
\* job, the only one with its URL, to the attempt's result and no other record;
\* unless that write throws (and the run ends) the file then holds the whole
\* catalogue, so the file is current whenever an attempt is under way.
OutcomeWriteBack ==
  /\ [](mainPc = "applying" => loadJobs(jobsFile).items = allJobs)
  /\ [][(mainPc = "applying" /\ flow.pc = "returned") =>
          LET k == toApply[i + 1]
          IN /\ DOMAIN allJobs' = DOMAIN allJobs
             /\ \A n \in DOMAIN allJobs : n # k =>
                  /\ allJobs'[n] = allJobs[n]
                  /\ allJobs[n].url # allJobs[k].url
             /\ allJobs'[k] =
                  [allJobs[k] EXCEPT
                     !.applied = flow.result,
                     !.appliedAt = IF flow.result THEN <<clock>> ELSE <<>>]
             /\ mainPc' # "exited" => loadJobs(jobsFile').items = allJobs']_vars

FirstOfTwoRecorded ==
  /\ mainPc = "delay"
  /\ Len(allJobs) = 2
  /\ allJobs[1].applied
  /\ allJobs[1].appliedAt # <<>>
  /\ ~allJobs[2].applied
  /\ loadJobs(jobsFile).items = allJobs

\* the label holds the key of one of the entries (saved answers or rules)
HoldsKey(label, entries) ==
  \E k \in DOMAIN entries : includes(label, toLowerCase(entries[k].key))

\* the first entry whose key the label holds
FirstKeyIn(label, entries) ==
  CHOOSE k \in DOMAIN entries :
    /\ includes(label, toLowerCase(entries[k].key))
    /\ \A m \in 1..(k - 1) : ~includes(label, toLowerCase(entries[m].key))

\* a question has been looked at and its label is not empty
Looked == flow.asked > 0 /\ flow.last.label # <<>>

\* C11: when the label holds a key of the saved answers and a key of the rule
\* table, the answer is the value of the first saved entry whose key the label
\* holds, as saved, whatever the options are.
SavedAnswerWins ==
  (/\ Looked
   /\ HoldsKey(flow.last.label, flow.last.before)
   /\ HoldsKey(flow.last.label, SCREENING_ANSWERS))
    => flow.last.answer =
         Str(flow.last.before[FirstKeyIn(flow.last.label, flow.last.before)].val)

SavedNoBeatsRuleYes ==
  /\ flow.asked = 1
  /\ flow.last.label = toLowerCase(RightToWork)
  /\ flow.last.options = << <<"Y", "e", "s">>, <<"y", "e", "s", " ", "p", "l", "e", "a", "s",
        "e">> >>
  /\ flow.last.answer = Str(<<"N", "o">>)

OptionSet(options) == {options[k] : k \in DOMAIN options}

HasPair(saved, label, answer) ==
  \E k \in DOMAIN saved : saved[k].key = label /\ saved[k].val = answer

\* C12: when the label holds no saved key and no rule key, the answer is "Yes"
\* and (label, "Yes") is then among the saved answers if the options are
\* exactly Yes and No, and there is no answer for any other options.
BinaryDefault ==
  (/\ Looked
   /\ ~HoldsKey(flow.last.label, flow.last.before)
   /\ ~HoldsKey(flow.last.label, SCREENING_ANSWERS))
    => IF OptionSet(flow.last.options) = {<<"Y", "e", "s">>, <<"N", "o">>}
         THEN /\ flow.last.answer = Str(<<"Y", "e", "s">>)
              /\ HasPair(flow.savedAnswers, flow.last.label, <<"Y", "e", "s">>)
         ELSE flow.last.answer = Null

\* C13: when the label holds a rule key and no saved key, the answer is the
\* rule's value if there are no options, and otherwise the first option that
\* contains the value or is contained in it (case-insensitive), or the first
\* option when none is.
RuleReconciled ==
  (/\ Looked
   /\ ~HoldsKey(flow.last.label, flow.last.before)
   /\ HoldsKey(flow.last.label, SCREENING_ANSWERS))
    => LET val == SCREENING_ANSWERS[FirstKeyIn(flow.last.label, SCREENING_ANSWERS)].val
           options == flow.last.options
           Fits(o) == \/ includes(toLowerCase(o), toLowerCase(val))
                      \/ includes(toLowerCase(val), toLowerCase(o))
           fit == FirstIndex(options, Fits)
       IN IF options = <<>> THEN flow.last.answer = Str(val)
          ELSE /\ flow.last.answer = Str(IF fit # 0 THEN options[fit] ELSE options[1])
               /\ flow.last.answer[1] \in OptionSet(options)

\* the step is the pass looking at one more question
OneMoreAsked == flow'.asked = flow.asked + 1

\* C14: every (label, answer) pair resolved since the pass began is among the
\* saved answers, whatever became of the form action (made, skipped or thrown);
\* a question with a label and a non-empty answer is such a pair; a question
\* left with no answer (null or empty) changes neither the saved answers nor the
\* answers file, makes no form action and leaves the step running.
LearnedWriteBack ==
  /\ [](\A p \in flow.answered : HasPair(flow.savedAnswers, p.label, p.answer))
  /\ []((Looked /\ Truthy(flow.last.answer))
          => /\ [label |-> flow.last.label, answer |-> flow.last.answer[1]]
                  \in flow.answered
             /\ flow.last.action \in {"none", "selectOption", "radioClick", "fill", "threw"})
  /\ [][(OneMoreAsked /\ ~Truthy(flow'.last.answer))
          => /\ flow'.savedAnswers = flow.savedAnswers
             /\ flow'.answersFile = flow.answersFile
             /\ flow'.answered = flow.answered
             /\ flow'.last.action = "none"
             /\ flow'.pc = "loop"
             /\ flow'.raised = "none"]_vars

Keys(saved) == {saved[k].key : k \in DOMAIN saved}

ValOf(saved, key) == saved[CHOOSE k \in DOMAIN saved : saved[k].key = key].val

\* C15: while a process runs no key leaves savedAnswers, and the value of a key
\* changes only when the pass saves an answer for that very label; no key ever
\* leaves the answers file, whose entries change only to what savedAnswers
\* holds; a new process starts from the file.
StoreOnlyGrows ==
  [][LET old == flow.savedAnswers
         new == flow'.savedAnswers
         oldFile == loadAnswers(flow.answersFile).entries
         newFile == loadAnswers(flow'.answersFile).entries
     IN /\ Keys(oldFile) \subseteq Keys(newFile)
        /\ \A key \in Keys(oldFile) :
             ValOf(newFile, key) # ValOf(oldFile, key)
               => (key \in Keys(new) /\ ValOf(newFile, key) = ValOf(new, key))
        /\ flow'.asked # 0 =>
             /\ Keys(old) \subseteq Keys(new)
             /\ \A key \in Keys(old) :
                  ValOf(new, key) # ValOf(old, key)
                    => /\ OneMoreAsked
                       /\ flow'.last.label = key
                       /\ flow'.last.answer = Str(ValOf(new, key))
        /\ flow'.asked = 0 => (newFile = oldFile /\ new = newFile)]_vars

\* C16: a call of applyToSeekJob is under way only while main() is at its call,
\* and it starts only from the head of the loop; when a call has ended main()
\* goes on to the delay with the outcome recorded and saved, or has no job left,
\* or exits; the head of the loop is reached with a job left only from the
\* merge or from a delay that has elapsed.
SequentialPacing ==
  /\ [](flow.pc # "none" => mainPc \in {"applying", "exited"})
  /\ [](mainPc = "delay" => (flow.pc = "none" /\ loadJobs(jobsFile).items = allJobs))
  /\ [][(flow.pc = "none" /\ flow'.pc # "none")
          => (mainPc = "loop" /\ mainPc' = "applying")]_vars
  /\ [][(mainPc = "applying" /\ mainPc' # "applying")
          => \/ mainPc' = "exited"
             \/ mainPc' = "delay" /\ i' = i /\ i < Len(toApply) - 1
             \/ mainPc' = "loop" /\ i' = Len(toApply)]_vars
  /\ [][(mainPc # "loop" /\ mainPc' = "loop" /\ i' < Len(toApply'))
          => \/ mainPc = "merge" /\ i' = 0
             \/ mainPc = "delay" /\ pageOpen /\ i' = i + 1]_vars

SecondAttemptAfterDelay ==
  /\ mainPc = "applying"
  /\ attempted = 2
  /\ i = 1
  /\ flow.pc = "entered"
  /\ loadJobs(jobsFile).items = allJobs

\* C17: the queue is the first unapplied jobs of the catalogue, MaxApplications
\* at most and each once; the jobs are attempted in queue order, one attempt
\* per place, so a run makes at most MaxApplications attempts, each on a job
\* that was unapplied when the queue was built, and none on a job it has
\* attempted before.
AttemptSelection ==
  /\ [](/\ Len(toApply) <= MaxApplications
        /\ attempted <= Len(toApply)
        /\ \A m, n \in DOMAIN toApply :
             m # n => allJobs[toApply[m]].url # allJobs[toApply[n]].url)
  /\ [](mainPc = "applying" =>
          /\ attempted = i + 1
          /\ ~allJobs[toApply[i + 1]].applied
          /\ allJobs[toApply[i + 1]].appliedAt = <<>>)
  /\ [][(mainPc = "merge" /\ mainPc' = "loop") =>
          /\ \A k \in DOMAIN toApply' : ~allJobs'[toApply'[k]].applied
          /\ \A n \in DOMAIN allJobs' :
               (~allJobs'[n].applied /\ \A k \in DOMAIN toApply' : toApply'[k] # n)
                 => Len(toApply') = MaxApplications]_vars
  /\ [][attempted' # attempted =>
          \/ attempted' = attempted + 1 /\ i' = i /\ toApply' = toApply
          \/ attempted' = 0 /\ runs' = runs + 1]_vars
  /\ [][toApply' # toApply => (mainPc = "merge" \/ runs' = runs + 1)]_vars
  /\ [][i' # i => (i' = i + 1 \/ (i' = 0 /\ runs' = runs + 1))]_vars

QueueCutAndAbandonedNotRetried ==
  /\ mainPc = "idle"
  /\ Len(unappliedFrom(allJobs, 1)) > MaxApplications
  /\ Len(toApply) = MaxApplications
  /\ attempted = MaxApplications
  /\ ~allJobs[toApply[1]].applied

\* C18: a call that found no apply trigger returns false with no iteration of
\* the step loop run: no page call of the loop made, no question looked at, no
\* continue or submit control clicked; the step loop runs only after the apply
\* click, and the step that looks for the trigger leaves savedAnswers and the
\* answers file as they were.
NoTriggerNoLoop ==
  /\ []((flow.pc = "returned" /\ ~flow.clicked /\ flow.raised = "none")
          => /\ flow.result = FALSE
             /\ flow.iterations = 0
             /\ flow.calls = <<>>
             /\ flow.asked = 0
             /\ flow.answered = {}
             /\ ~flow.continued
             /\ ~flow.submitClicked
             /\ flow.target = 0)
  /\ [](flow.iterations > 0 => flow.clicked)
  /\ [][flow.pc = "entered"
          => /\ flow'.savedAnswers = flow.savedAnswers
             /\ flow'.answersFile = flow.answersFile]_vars

NoTriggerAbandoned ==
  /\ flow.pc = "returned"
  /\ ~flow.clicked
  /\ flow.raised = "none"
  /\ flow.result = FALSE
  /\ flow.iterations = 0
  /\ flow.savedAnswers = <<>>

\* C19: an iteration whose completion check finds the signal returns true
\* having made that page call only: no cover-letter search, no question pass,
\* no continue or submit click, and savedAnswers and the answers file are as
\* they were.
CompletionCheckFirst ==
  /\ []((/\ flow.iterations > 0
         /\ flow.pc = "returned"
         /\ flow.raised = "none"
         /\ isDone(flow.screen.body))
          => /\ flow.result = TRUE
             /\ flow.calls = <<"check">>
             /\ flow.asked = 0
             /\ flow.answered = {}
             /\ ~flow.continued
             /\ ~flow.submitClicked
             /\ flow.target = 0)
  /\ [][(flow.pc = "loop" /\ flow'.pc # "loop" /\ isDone(flow'.screen.body))
          => /\ flow'.savedAnswers = flow.savedAnswers
             /\ flow'.answersFile = flow.answersFile]_vars

DoneOnSecondStepOfQuestionForm ==
  /\ flow.pc = "returned"
  /\ flow.iterations = 2
  /\ flow.result = TRUE
  /\ flow.raised = "none"
  /\ isDone(flow.screen.body)
  /\ flow.screen.questions = <<HappyYesNo>>
  /\ flow.screen.controls = <<SubmitApplicationBtn>>
  /\ flow.savedAnswers = <<>>

\* the files the claim calls absent or malformed: not there, rejected by
\* JSON.parse, or holding JSON that is not what the program writes
Unreadable == {"absent", "malformed", "null"}

\* C20: an absent or malformed answers file gives an empty savedAnswers, and the
\* process goes on to the search with it; an absent or malformed catalogue
\* file gives an empty job list, the merge into it gives the fresh jobs and
\* the run goes on (it ends at the merge only if the write fails); no
\* application is abandoned over the store that was loaded.
TolerantLoad ==
  /\ [](flow.answersFile.kind \in Unreadable
          => loadAnswers(flow.answersFile) = [isNull |-> FALSE, entries |-> <<>>])
  /\ [](jobsFile.kind \in Unreadable
          => loadJobs(jobsFile) = [isArray |-> TRUE, items |-> <<>>])
  /\ []((mainPc = "search" /\ flow.answersFile.kind \in Unreadable)
          => (flow.savedAnswers = <<>> /\ ~flow.nullStore))
  /\ [](flow.raised # "findAnswer")
  /\ [][(mainPc = "merge" /\ jobsFile.kind \in Unreadable)
          => /\ allJobs' = freshJobs
             /\ mainPc' = "exited" => writeFailed']_vars
  /\ [][(runs' = runs + 1 /\ flow.answersFile.kind \in Unreadable)
          => /\ mainPc' = "search"
             /\ flow'.savedAnswers = <<>>
             /\ flow'.answersFile = flow.answersFile]_vars

\* the last iteration made every page call down to the submit search, none
\* threw, and neither search clicked a control
NothingClicked ==
  /\ flow.iterations > 0
  /\ flow.calls = callsUpTo("submit")
  /\ flow.raised = "none"
  /\ flow.dispatched = "none"

\* C21: an iteration that saw no completion signal and clicked neither a
\* continue nor a submit control ends the call with false in that iteration,
\* whether or not its question pass resolved a question; a new iteration starts
\* only from the head of the loop, which such a call never reaches again.
NoActionableControl ==
  /\ [](NothingClicked
          => /\ flow.pc = "returned"
             /\ flow.result = FALSE
             /\ flow.target = 0
             /\ ~isDone(flow.screen.body)
             /\ ~flow.continued
             /\ ~flow.submitClicked
             /\ clickButtonByText(flow.screen.controls, ContinueTexts) = 0
             /\ findSubmitBtn(flow.late) = 0)
  /\ []((/\ flow.iterations > 0
         /\ flow.pc \in {"continued", "confirm", "returned"}
         /\ flow.raised = "none"
         /\ flow.screen # NoScreen
         /\ ~isDone(flow.screen.body)
         /\ flow.dispatched = "none") => NothingClicked)
  /\ [][flow'.iterations > flow.iterations
          => (flow.pc = "loop" /\ flow'.iterations = flow.iterations + 1)]_vars
  /\ [][(flow.pc = "returned" /\ flow'.pc # "returned") => flow'.pc = "none"]_vars

AnsweredButNothingToClick ==
  /\ NothingClicked
  /\ flow.pc = "returned"
  /\ flow.result = FALSE
  /\ flow.iterations = 2
  /\ flow.screen.controls = <<NextDisabledBtn>>
  /\ flow.late = <<NextDisabledBtn>>
  /\ flow.answered = {[label |-> toLowerCase(Happy), answer |-> <<"Y", "e", "s">>]}
  /\ HasPair(flow.savedAnswers, toLowerCase(Happy), <<"Y", "e", "s">>)

\* the completion check of the last iteration found the signal
SignalSeen == flow.calls = callsUpTo("check") /\ flow.raised = "none"

\* the ways a call ends that are neither the signal nor the submit click
NoTrigger == ~flow.clicked /\ flow.raised = "none"
CeilingReached == flow.step = MaxSteps + 1 /\ flow.raised = "none"
Excepted == flow.raised \notin {"none", "wait"}

Running == flow.pc \in {"entered", "loop", "continued", "confirm"}

\* the steps a running call can still take, at most: two for each iteration
\* left (the iteration and the pause after its continue click)
StepsLeft(f) ==
  CASE f.pc = "entered" -> 2 * MaxSteps + 2
    [] f.pc = "loop" -> 2 * (MaxSteps - f.step) + 2
    [] f.pc = "continued" -> 2 * (MaxSteps - f.step) + 1
    [] f.pc = "confirm" -> 1
    [] OTHER -> 0

\* C22: a call that has started can always take its next step and every step
\* brings it nearer its return, so it returns; it runs at most MaxSteps
\* iterations, no exception leaves it, and it returns true exactly when the
\* completion check of an iteration found the signal or the submit control was
\* clicked; every call that returns false found no apply trigger, found
\* nothing to click, reached the ceiling or caught an exception.
TerminationAndOutcome ==
  /\ [](flow.iterations <= MaxSteps /\ flow.step <= MaxSteps + 1)
  /\ [](flow.pc \in {"none", "entered", "loop", "continued", "confirm", "returned"})
  /\ [](flow.pc = "returned"
          => /\ flow.result \in BOOLEAN
             /\ flow.result <=> (SignalSeen \/ flow.dispatched = "submit")
             /\ ~flow.result
                  <=> (NoTrigger \/ NothingClicked \/ CeilingReached \/ Excepted))
  /\ [](flow.pc # "returned" => ~flow.result)
  /\ []((Running /\ mainPc = "applying") => ENABLED FlowNext)
  /\ [][Running => (StepsLeft(flow') < StepsLeft(flow) /\ StepsLeft(flow') >= 0)]_vars

\* C23: a call of applyToJob that clicked no apply button returns false and
\* clicks no submit button, and a call returns true only with the apply button
\* and the submit button both clicked.
IndeedNeedsApplyTrigger ==
  indeed.pc = "returned" =>
    /\ ~indeed.applyClicked => (indeed.result = FALSE /\ ~indeed.submitClicked)
    /\ indeed.result => (indeed.applyClicked /\ indeed.submitClicked)

\* C24: in a process that started with no saved answer, a label that has an
\* answer saved under it is resolved to that answer again, whatever the
\* options are and whatever other labels were learned since.
LearnedAnswerStable ==
  (Looked /\ flow.last.label \in Keys(flow.last.before))
    => flow.last.answer = Str(ValOf(flow.last.before, flow.last.label))

\* every record of jobs has an appliedAt exactly when it is applied
StampedIffApplied(jobs) ==
  \A n \in DOMAIN jobs : jobs[n].applied <=> jobs[n].appliedAt # <<>>

\* every applied record of old is in new, at its place, as it was
AppliedKept(old, new) ==
  \A n \in DOMAIN old :
    old[n].applied => (n \in DOMAIN new /\ new[n] = old[n])

\* C25: in the catalogue, in memory and in the file, a record has an appliedAt
\* exactly when its applied flag is true; a record that is applied in the file
\* stays in the file as it is, run after run, and a record that is applied in
\* memory stays as it is while the run lasts; a merge takes every applied
\* record of the file into memory.
AppliedMonotonic ==
  /\ [](StampedIffApplied(allJobs) /\ StampedIffApplied(loadJobs(jobsFile).items))
  /\ [][AppliedKept(loadJobs(jobsFile).items, loadJobs(jobsFile').items)]_vars
  /\ [][runs' = runs => AppliedKept(allJobs, allJobs')]_vars
  /\ [][mainPc = "merge" => AppliedKept(loadJobs(jobsFile).items, allJobs')]_vars

====
